---- MODULE Spec2Model ----
(***************************************************************************)
(* A model of the conversational agent of backend/app/agents:              *)
(*   - base_agent.py: the five-node conversation graph run once per user   *)
(*     message by BaseAgent.process_message, and the responses it yields;  *)
(*   - thinking_tracker.py: the ThinkingTracker, its scoped sessions, its  *)
(*     in-memory step buffers and the rows it writes to the step store.    *)
(*                                                                         *)
(* Free text (titles, contents, prompts) carries no control flow and is    *)
(* kept only as a tag.  Confidence and importance are percentages, -1 is   *)
(* Python's None.  A dictionary is a function whose DOMAIN is its key set. *)
(***************************************************************************)
EXTENDS Integers, Sequences, FiniteSets, TLC

(***************************************************************************)
(* Bounds of the model.                                                    *)
(***************************************************************************)
\* most tool calls one LLM reply asks for
MaxToolCalls == 2
\* most steps a tracker client records in one behaviour
MaxSteps == 2

SessionIds == {"s1", "s2"}
\* a tracker client opens as many track_session scopes as there are session ids
MaxScopes == Cardinality(SessionIds)
\* "" is the falsy user id that switches step recording off in the nodes
UserIds == {"u1", ""}
\* the agent's registered tool (weather_tool.py) and a name it does not know
RegisteredTools == {"weather_query"}
ToolNames == {"weather_query", "bogus_tool"}
CallIds == 1..(MaxToolCalls + 1)

VARIABLES
    \* ---- AgentState of the running turn (base_agent.py:41-55)
    messages,            \* List[BaseMessage]
    tool_calls,          \* pending tool calls
    error_count,
    thinking_process,
    user_id,
    session_id,
    enable_thinking_tracking,
    \* ---- the graph runner and process_message
    node,                \* the node to run next; START, END, DONE around the turn
    executed,            \* history: the nodes run, with the state each returned
    responses,           \* the AgentResponse objects yielded so far
    \* ---- ThinkingTracker (thinking_tracker.py:58-60) and its store
    active_sessions,     \* _active_sessions
    step_buffers,        \* _step_buffers
    db_steps,            \* rows of thinking_steps, in insertion order
    db_sessions,         \* rows of thinking_sessions, in insertion order
    \* ---- history of the tracker's client
    recorded,            \* per session id: the titles of the steps it should hold
    n_recorded,          \* steps accepted so far
    n_scopes,            \* scopes opened so far
    last_call,           \* the operation that produced the current state
    \* ---- StreamService (stream_service.py:107-116)
    connections,         \* connection id -> StreamConnection
    connection_queues,   \* connection id -> the messages waiting in its asyncio.Queue
    running,             \* _running
    since_sweep,         \* time since the heartbeat loop last went to sleep
    broadcast_tasks,     \* the send tasks gather has created and not yet run
    last_broadcast,      \* history: the broadcast whose send tasks ran last
    swept,               \* history: the connections the heartbeat loop disconnected
    stream_pc,           \* connection id -> where its get_event_stream generator is
    delivered,           \* connection id -> the events its generator has yielded
    n_created,           \* connections created so far
    n_messages,          \* StreamMessage objects the callers have built so far
    \* ---- the messages table and the create_message calls in progress
    db_messages,         \* rows of messages, in insertion order
    create_calls,        \* caller -> the position and locals of its create_message
    n_create_calls,      \* create_message calls started so far
    \* ---- authentication (api/auth.py, core/security.py)
    issued,              \* the JWTs create_user_tokens has signed
    user_sessions,       \* rows of user_sessions
    auth_now,            \* the clock the expiry checks read
    n_logins,            \* successful logins so far
    logged_out,          \* history: the tokens issued before a logout of their user
    auth_response,       \* history: the last request and the answer it got
    \* ---- chat sessions (api/chat.py, services/chat_service.py)
    chat_sessions,       \* rows of chat_sessions
    chat_response,       \* history: the last chat request and the answer it got
    \* ---- tasks that use the tracker at the same time (thinking_tracker.py)
    open_scopes,         \* session id -> the track_session scopes open on it
    flush_call           \* the _flush_steps call in progress: its position and locals

agent_vars == <<messages, tool_calls, error_count, thinking_process, user_id,
                session_id, enable_thinking_tracking, node, executed, responses>>
tracker_vars == <<active_sessions, step_buffers, db_steps, db_sessions>>
client_vars == <<recorded, n_recorded, n_scopes>>
stream_vars == <<connections, connection_queues, running, since_sweep, broadcast_tasks,
                 last_broadcast, swept,
                 stream_pc, delivered, n_created, n_messages>>
\* what the agent and the tracker leave alone, and what the stream service does
message_vars == <<db_messages, create_calls, n_create_calls>>
auth_vars == <<issued, user_sessions, auth_now, n_logins, logged_out, auth_response>>
chat_vars == <<chat_sessions, chat_response>>
task_vars == <<open_scopes, flush_call>>
not_agent_vars == <<stream_vars, message_vars, auth_vars, chat_vars, task_vars>>
not_stream_vars == <<agent_vars, tracker_vars, client_vars, last_call, message_vars, auth_vars,
                     chat_vars, task_vars>>
not_message_vars == <<agent_vars, tracker_vars, client_vars, last_call, stream_vars, auth_vars,
                      chat_vars, task_vars>>
not_auth_vars == <<agent_vars, tracker_vars, client_vars, last_call, stream_vars, message_vars,
                   chat_vars, task_vars>>
not_chat_vars == <<agent_vars, tracker_vars, client_vars, last_call, stream_vars, message_vars,
                   auth_vars, task_vars>>
\* what the tasks on the tracker leave alone
not_tracker_vars == <<agent_vars, stream_vars, message_vars, auth_vars, chat_vars>>
vars == <<agent_vars, tracker_vars, client_vars, last_call, stream_vars, message_vars,
          auth_vars, chat_vars, task_vars>>

(***************************************************************************)
(* Dictionaries.                                                           *)
(***************************************************************************)
EmptyDict == [k \in {} |-> <<>>]
DictPut(d, k, v) == [x \in (DOMAIN d) \cup {k} |-> IF x = k THEN v ELSE d[x]]
DictPop(d, k) == [x \in (DOMAIN d) \ {k} |-> d[x]]

\* the requests that use the message repository, each with its own database
\* session (core/database.py:33-43), and the chat sessions they write to
Callers == {1, 2}
ChatSessions == {"s1", "s2"}
\* a caller that has not called create_message yet
NoCall == [pc |-> "idle", session_id |-> "None", sequence_number |-> 0, outcome |-> "none"]

\* no request answered yet
NoResponse == [request |-> "none", token |-> 0, status |-> 0,
               after_logout |-> FALSE, expired |-> FALSE]

\* no chat request answered yet
NoChatResponse == [request |-> "none", user |-> "None", session |-> 0, status |-> 0,
                   sessions |-> {}]

\* no _flush_steps call in progress
NoFlush == [session_id |-> "None", pc |-> "idle", rows |-> <<>>]

RECURSIVE SeqFilter(_, _)
\* the entries of sequence s whose session_id is sid, in order
SeqFilter(s, sid) ==
    IF s = <<>> THEN <<>>
    ELSE IF Head(s).session_id = sid
         THEN <<Head(s)>> \o SeqFilter(Tail(s), sid)
         ELSE SeqFilter(Tail(s), sid)

RECURSIVE InsertByStepNumber(_, _)
InsertByStepNumber(sorted, row) ==
    IF sorted = <<>> THEN <<row>>
    ELSE IF Head(sorted).step_number <= row.step_number
         THEN <<Head(sorted)>> \o InsertByStepNumber(Tail(sorted), row)
         ELSE <<row>> \o sorted

RECURSIVE OrderByStepNumber(_)
\* .order_by(ThinkingStep.step_number): ascending, ties in insertion order
OrderByStepNumber(rows) ==
    IF rows = <<>> THEN <<>>
    ELSE InsertByStepNumber(OrderByStepNumber(SubSeq(rows, 1, Len(rows) - 1)),
                            rows[Len(rows)])

(***************************************************************************)
(* ThinkingStepData and the convenience constructors                       *)
(* (thinking_tracker.py:35-48, 137-244).                                   *)
(***************************************************************************)
ThinkingStepData(title, phase, step_type, tool_name, tool_output, confidence, importance) ==
    [title |-> title, phase |-> phase, step_type |-> step_type,
     tool_name |-> tool_name, tool_output |-> tool_output,
     confidence |-> confidence, importance |-> importance]

Observation(title, confidence) ==
    ThinkingStepData(title, "analysis", "observation", "None", "None", confidence, -1)
Analysis(title, confidence) ==
    ThinkingStepData(title, "analysis", "analysis", "None", "None", confidence, -1)
Decision(title, confidence, importance) ==
    ThinkingStepData(title, "planning", "decision", "None", "None", confidence, importance)
ToolCallStep(tool_name, tool_output, confidence) ==
    ThinkingStepData("tool:" \o tool_name, "execution", "tool_call", tool_name,
                     tool_output, confidence, -1)
Conclusion(title, confidence) ==
    ThinkingStepData(title, "response_generation", "conclusion", "None", "None",
                     confidence, -1)

(***************************************************************************)
(* ThinkingTracker._flush_steps (thinking_tracker.py:407-447) as one       *)
(* uninterrupted call.  db_ok is the store's answer: when the count query  *)
(* or the commit raises, the transaction is rolled back, the exception is  *)
(* logged and the buffer is left as it was.                                *)
(***************************************************************************)
StepRow(sid, step_number, row_id, step_data) ==
    [id |-> row_id, session_id |-> sid, step_number |-> step_number,
     title |-> step_data.title, phase |-> step_data.phase,
     step_type |-> step_data.step_type, tool_name |-> step_data.tool_name,
     tool_output |-> step_data.tool_output, confidence |-> step_data.confidence,
     importance |-> step_data.importance]

FlushNoClear(buffers, steps, sid, db_ok) ==
    IF sid \notin DOMAIN buffers \/ buffers[sid] = <<>> \/ ~db_ok
    THEN [buffers |-> buffers, steps |-> steps]
    ELSE LET current_count == Len(SeqFilter(steps, sid))
             new_rows == [i \in 1..Len(buffers[sid]) |->
                            StepRow(sid, current_count + (i - 1) + 1,
                                    Len(steps) + i, buffers[sid][i])]
         IN [buffers |-> buffers, steps |-> steps \o new_rows]

FlushSteps(buffers, steps, sid, db_ok) ==
    IF sid \notin DOMAIN buffers \/ buffers[sid] = <<>>
    THEN [buffers |-> buffers, steps |-> steps]
    ELSE IF ~db_ok
         THEN [buffers |-> buffers, steps |-> steps]
         ELSE LET current_count == Len(SeqFilter(steps, sid))
                  new_rows == [i \in 1..Len(buffers[sid]) |->
                                 StepRow(sid, current_count + (i - 1) + 1,
                                         Len(steps) + i, buffers[sid][i])]
              IN [buffers |-> [buffers EXCEPT ![sid] = <<>>],
                  steps |-> steps \o new_rows]

(***************************************************************************)
(* ThinkingTracker.add_thinking_step (thinking_tracker.py:110-135).        *)
(* The result names the new buffers and store and whether the call raised. *)
(***************************************************************************)
AddUnguarded(active, buffers, steps, sid, step_data, auto_flush, db_ok) ==
    IF sid \notin DOMAIN buffers
    THEN [buffers |-> buffers, steps |-> steps, raised |-> TRUE]
    ELSE LET appended == [buffers EXCEPT ![sid] = Append(@, step_data)]
             flushed == IF auto_flush
                        THEN FlushSteps(appended, steps, sid, db_ok)
                        ELSE [buffers |-> appended, steps |-> steps]
         IN [buffers |-> flushed.buffers, steps |-> flushed.steps, raised |-> FALSE]

AddThinkingStep(active, buffers, steps, sid, step_data, auto_flush, db_ok) ==
    IF sid \notin DOMAIN active
    THEN [buffers |-> buffers, steps |-> steps, raised |-> FALSE]
    ELSE LET appended == [buffers EXCEPT ![sid] = Append(@, step_data)]
             flushed == IF auto_flush
                        THEN FlushSteps(appended, steps, sid, db_ok)
                        ELSE [buffers |-> appended, steps |-> steps]
         IN [buffers |-> flushed.buffers, steps |-> flushed.steps, raised |-> FALSE]

RECURSIVE AddAll(_, _, _, _)
\* the convenience recorders called one after the other, none with auto_flush
AddAll(active, buffers, sid, step_list) ==
    IF step_list = <<>> THEN buffers
    ELSE AddAll(active,
                AddThinkingStep(active, buffers, <<>>, sid, Head(step_list),
                                FALSE, TRUE).buffers,
                sid, Tail(step_list))

(***************************************************************************)
(* ThinkingTracker.track_session (thinking_tracker.py:62-108) and the two  *)
(* store operations around its body.  Each swallows its own exceptions.    *)
(***************************************************************************)
ThinkingContext(sid, uid) == [session_id |-> sid, user_id |-> uid]

\* _create_thinking_session (387-405)
CreateThinkingSession(sessions, sid, uid, db_ok) ==
    IF db_ok
    THEN Append(sessions, [session_id |-> sid, user_id |-> uid,
                           total_steps |-> 0, tool_calls_count |-> 0])
    ELSE sessions

RECURSIVE FirstIndex(_, _, _)
\* .filter(ThinkingSession.session_id == session_id).first(): 0 when there is none
FirstIndex(sessions, sid, i) ==
    IF i > Len(sessions) THEN 0
    ELSE IF sessions[i].session_id = sid THEN i
    ELSE FirstIndex(sessions, sid, i + 1)

RECURSIVE CountToolCalls(_)
CountToolCalls(rows) ==
    IF rows = <<>> THEN 0
    ELSE (IF Head(rows).step_type = "tool_call" THEN 1 ELSE 0) + CountToolCalls(Tail(rows))

\* _finalize_thinking_session (449-488): flush, then update the aggregates
FinalizeThinkingSession(buffers, steps, sessions, sid, flush_ok, update_ok) ==
    LET flushed == FlushSteps(buffers, steps, sid, flush_ok)
        idx == FirstIndex(sessions, sid, 1)
        rows == SeqFilter(flushed.steps, sid)
    IN [buffers |-> flushed.buffers,
        steps |-> flushed.steps,
        sessions |-> IF update_ok /\ idx > 0
                     THEN [sessions EXCEPT ![idx] =
                              [@ EXCEPT !.total_steps = Len(rows),
                                        !.tool_calls_count = CountToolCalls(rows)]]
                     ELSE sessions]

\* the finally block of track_session (100-106): finalize, then forget the id
ExitKeepBuffer(active, buffers, steps, sessions, sid, flush_ok, update_ok) ==
    LET fin == FinalizeThinkingSession(buffers, steps, sessions, sid, flush_ok, update_ok)
    IN [active |-> DictPop(active, sid),
        buffers |-> IF fin.buffers[sid] = <<>> THEN DictPop(fin.buffers, sid)
                    ELSE fin.buffers,
        steps |-> fin.steps, sessions |-> fin.sessions]

TrackSessionExitResult(active, buffers, steps, sessions, sid, flush_ok, update_ok) ==
    LET fin == FinalizeThinkingSession(buffers, steps, sessions, sid, flush_ok, update_ok)
    IN [active |-> DictPop(active, sid),
        buffers |-> DictPop(fin.buffers, sid),
        steps |-> fin.steps, sessions |-> fin.sessions]

(***************************************************************************)
(* ThinkingTracker.get_session_steps (thinking_tracker.py:246-324).  A     *)
(* persisted entry has no "from_buffer" key: from_buffer is FALSE for it.  *)
(* When the query raises the result is the empty list.                     *)
(***************************************************************************)
StepDictUnmarked(id, step_number, s, from_buffer) ==
    [id |-> id, step_number |-> step_number, title |-> s.title, phase |-> s.phase,
     step_type |-> s.step_type, tool_name |-> s.tool_name,
     tool_output |-> s.tool_output, confidence |-> s.confidence,
     importance |-> s.importance, from_buffer |-> FALSE]
StepDict(id, step_number, s, from_buffer) ==
    [id |-> id, step_number |-> step_number, title |-> s.title, phase |-> s.phase,
     step_type |-> s.step_type, tool_name |-> s.tool_name,
     tool_output |-> s.tool_output, confidence |-> s.confidence,
     importance |-> s.importance, from_buffer |-> from_buffer]

GetSessionSteps(buffers, steps, sid, include_buffer, db_ok) ==
    IF ~db_ok THEN <<>>
    ELSE LET rows == OrderByStepNumber(SeqFilter(steps, sid))
             step_list == [i \in 1..Len(rows) |->
                             StepDict(<<"row", rows[i].id>>, rows[i].step_number,
                                      rows[i], FALSE)]
         IN IF include_buffer /\ sid \in DOMAIN buffers
            THEN LET start_number == Len(step_list) + 1
                 IN step_list \o
                    [i \in 1..Len(buffers[sid]) |->
                        StepDict(<<"buffer", i - 1>>, start_number + (i - 1),
                                 buffers[sid][i], TRUE)]
            ELSE step_list

(***************************************************************************)
(* The conversation graph (base_agent.py).                                 *)
(***************************************************************************)
\* AgentState.error_count and AgentState.max_errors, their defaults
error_count_default == 0
max_errors == 3

HumanMessage == [type |-> "human", content |-> "user_message", tool_calls |-> <<>>,
                 tool_call_id |-> 0]
AIMessage(content, calls) == [type |-> "ai", content |-> content, tool_calls |-> calls,
                              tool_call_id |-> 0]
ToolMessage(content, tool_call_id) == [type |-> "tool", content |-> content,
                                       tool_calls |-> <<>>, tool_call_id |-> tool_call_id]

\* AgentResponse (base_agent.py:67-75); tool_calls None is the empty list
AgentResponse(content, message_type, calls, from_node) ==
    [content |-> content, message_type |-> message_type, tool_calls |-> calls,
     node |-> from_node]

\* what an LLM reply can ask for: up to MaxToolCalls calls with distinct ids
ToolCall == [id : CallIds, name : ToolNames, args : {"city"}]
Replies == {r \in UNION {[1..n -> ToolCall] : n \in 0..MaxToolCalls} :
               \A i, j \in 1..Len(r) : i # j => r[i].id # r[j].id}

\* the guard of every recording in the nodes
Tracking == enable_thinking_tracking /\ user_id # "" /\ session_id # ""

\* the recorder calls of a node, made only under Tracking
NodeRecords(step_list) ==
    IF Tracking THEN AddAll(active_sessions, step_buffers, session_id, step_list)
    ELSE step_buffers

\* _should_continue_thinking (494-498)
ThinkRouteLate(ec) == IF ec > 1 THEN "error" ELSE "act"
should_continue_thinking(ec) == IF ec > 0 THEN "error" ELSE "act"

\* _should_use_tools (500-507)
IgnoreErrors(ec, pending) == IF pending # <<>> THEN "use_tools" ELSE "respond"
should_use_tools(ec, pending) ==
    IF ec > 0 THEN "error" ELSE IF pending # <<>> THEN "use_tools" ELSE "respond"

\* the edge maps of _build_workflow (142-159)
EdgeBackToThink(label) == IF label = "error" THEN "think" ELSE label
Edge(label) == IF label = "error" THEN "error_handler" ELSE label

\* _process_stream_event (631-662) on the event of one node
StreamEvent(from_node, out_messages, out_thinking, out_calls) ==
    IF from_node = "think" /\ out_thinking # <<>> /\ enable_thinking_tracking
    THEN <<AgentResponse(out_thinking[Len(out_thinking)], "thinking", <<>>, from_node)>>
    ELSE IF from_node = "respond" /\ out_messages # <<>>
              /\ out_messages[Len(out_messages)].type = "ai"
         THEN <<AgentResponse(out_messages[Len(out_messages)].content, "ai",
                              out_calls, from_node)>>
         ELSE <<>>

\* history: a node that ran, with the state it returned
Ran(n, ec, pending, msgs, buffers) ==
    [node |-> n, error_count |-> ec, pending |-> pending, n_messages |-> Len(msgs),
     n_steps |-> IF session_id \in DOMAIN buffers THEN Len(buffers[session_id]) ELSE 0]

Call(op, sid) ==
    [op |-> op, session_id |-> sid, auto_flush |-> FALSE, was_active |-> FALSE,
     db_ok |-> TRUE, body_raised |-> FALSE, raised |-> FALSE, buffered |-> 0]

\* process_message up to the first node (568-606)
ProcessMessage(sid, uid, thinking_enabled, create_ok) ==
    /\ node = "START"
    /\ UNCHANGED not_agent_vars
    /\ messages' = <<HumanMessage>>
    /\ tool_calls' = <<>>
    /\ error_count' = error_count_default
    /\ thinking_process' = <<>>
    /\ user_id' = uid
    /\ session_id' = sid
    /\ enable_thinking_tracking' = thinking_enabled
    /\ IF thinking_enabled
       THEN /\ active_sessions' = DictPut(active_sessions, sid, ThinkingContext(sid, uid))
            /\ step_buffers' = DictPut(step_buffers, sid, <<>>)
            /\ db_sessions' = CreateThinkingSession(db_sessions, sid, uid, create_ok)
       ELSE UNCHANGED <<active_sessions, step_buffers, db_sessions>>
    /\ node' = "think"
    /\ last_call' = [Call("process_message", sid) EXCEPT !.db_ok = create_ok]
    /\ UNCHANGED <<executed, responses, db_steps, client_vars>>

\* _think_node (167-224) and the routing after it
ThinkNode ==
    /\ node = "think"
    /\ UNCHANGED not_agent_vars
    /\ \E llm_ok \in BOOLEAN :
         /\ thinking_process' = IF llm_ok THEN Append(thinking_process, "analysis_text")
                                ELSE thinking_process
         /\ error_count' = IF llm_ok THEN error_count ELSE error_count + 1
         /\ step_buffers' = NodeRecords(
                <<Observation("think_start", -1),
                  IF llm_ok THEN Analysis("think_done", 80) ELSE Analysis("think_error", 0)>>)
         /\ last_call' = [Call("think", session_id) EXCEPT !.raised = ~llm_ok]
    /\ node' = Edge(should_continue_thinking(error_count'))
    /\ executed' = Append(executed, Ran("think", error_count', tool_calls, messages, step_buffers'))
    /\ responses' = responses \o StreamEvent("think", messages, thinking_process', tool_calls)
    /\ UNCHANGED <<messages, tool_calls, user_id, session_id, enable_thinking_tracking,
                   active_sessions, db_steps, db_sessions, client_vars>>

\* the decision steps recorded for the tool calls of a reply (265-276)
ToolDecisions(reply) ==
    [i \in 1..Len(reply) |-> Decision("use_tool:" \o reply[i].name, 90, 80)]

\* _act_node (226-307) and the routing after it
ActNode ==
    /\ node = "act"
    /\ UNCHANGED not_agent_vars
    /\ \/ \E reply \in Replies :
            /\ messages' = Append(messages, AIMessage("act_reply", reply))
            /\ tool_calls' = IF reply # <<>> THEN tool_calls \o reply ELSE tool_calls
            /\ error_count' = error_count
            /\ step_buffers' = NodeRecords(
                   <<Decision("plan_start", 70, -1)>> \o
                   (IF reply # <<>> THEN ToolDecisions(reply)
                    ELSE <<Decision("direct_answer", 80, -1)>>))
            /\ last_call' = Call("act", session_id)
       \/ /\ messages' = messages
          /\ tool_calls' = tool_calls
          /\ error_count' = error_count + 1
          /\ step_buffers' = NodeRecords(
                 <<Decision("plan_start", 70, -1), Decision("plan_error", 0, -1)>>)
          /\ last_call' = [Call("act", session_id) EXCEPT !.raised = TRUE]
    /\ node' = Edge(should_use_tools(error_count', tool_calls'))
    /\ executed' = Append(executed, Ran("act", error_count', tool_calls', messages', step_buffers'))
    /\ responses' = responses \o StreamEvent("act", messages', thinking_process, tool_calls')
    /\ UNCHANGED <<thinking_process, user_id, session_id, enable_thinking_tracking,
                   active_sessions, db_steps, db_sessions, client_vars>>

\* next((t for t in self.tools if t.name == tool_name), None)  (337)
FindTool(tool_name) == IF tool_name \in RegisteredTools THEN tool_name ELSE "None"

\* what one pending call comes to (338-400): the content of its ToolMessage and
\* the confidence of its step; outcome is what tool.ainvoke does when it is called
NotFoundAsResult(call, outcome) ==
    IF outcome = "ok" THEN [content |-> "result", confidence |-> 95]
    ELSE [content |-> "tool_error", confidence |-> 0]
RaiseAsResult(call, outcome) ==
    IF FindTool(call.name) = "None" THEN [content |-> "not_found", confidence |-> 0]
    ELSE [content |-> "result", confidence |-> 95]
ToolResult(call, outcome) ==
    IF FindTool(call.name) = "None" THEN [content |-> "not_found", confidence |-> 0]
    ELSE IF outcome = "ok" THEN [content |-> "result", confidence |-> 95]
    ELSE [content |-> "tool_error", confidence |-> 0]

\* tool_responses (318-388): one ToolMessage per pending call, in order
SkipNotFound(calls, outcomes, i) ==
    IF FindTool(calls[i].name) = "None" THEN <<>>
    ELSE <<ToolMessage(ToolResult(calls[i], outcomes[i]).content, calls[i].id)>>
OneResponse(calls, outcomes, i) ==
    <<ToolMessage(ToolResult(calls[i], outcomes[i]).content, calls[i].id)>>

RECURSIVE ToolResponses(_, _, _)
ToolResponses(calls, outcomes, i) ==
    IF i > Len(calls) THEN <<>>
    ELSE OneResponse(calls, outcomes, i) \o ToolResponses(calls, outcomes, i + 1)

RECURSIVE ToolSteps(_, _, _)
\* per call: the step recorded before the lookup (326-334), then the step of
\* its result (347-356, 369-378, 391-400)
ToolSteps(calls, outcomes, i) ==
    IF i > Len(calls) THEN <<>>
    ELSE LET call == calls[i]
             res == ToolResult(call, outcomes[i])
         IN <<ToolCallStep(call.name, "None", 90),
              ToolCallStep(call.name, res.content, res.confidence)>>
            \o ToolSteps(calls, outcomes, i + 1)

\* state.tool_calls = []  (406)
ClearedToolCalls(calls) == <<>>

\* _use_tools_node (309-408); no statement outside the per-call handlers raises
\* for the calls act records, so the handler at 410-424 is never entered
UseTools(outcomes) ==
    /\ node = "use_tools"
    /\ UNCHANGED not_agent_vars
    /\ IF tool_calls = <<>>
       THEN UNCHANGED <<messages, tool_calls, step_buffers>>
       ELSE /\ messages' = messages \o ToolResponses(tool_calls, outcomes, 1)
            /\ tool_calls' = ClearedToolCalls(tool_calls)
            /\ step_buffers' = NodeRecords(ToolSteps(tool_calls, outcomes, 1))
    /\ error_count' = error_count
    /\ last_call' = Call("use_tools", session_id)
    /\ node' = "respond"
    /\ executed' = Append(executed, Ran("use_tools", error_count', tool_calls', messages',
                                     step_buffers'))
    /\ responses' = responses \o StreamEvent("use_tools", messages', thinking_process,
                                             tool_calls')
    /\ UNCHANGED <<thinking_process, user_id, session_id, enable_thinking_tracking,
                   active_sessions, db_steps, db_sessions, client_vars>>

\* what tool.ainvoke does for each pending call: it returns or it raises
ToolOutcomes == [1..Len(tool_calls) -> {"ok", "raise"}]
UseToolsNode == \E outcomes \in ToolOutcomes : UseTools(outcomes)

\* _respond_node (426-479), the edge to END and the event of the node
RespondNode ==
    /\ node = "respond"
    /\ UNCHANGED not_agent_vars
    /\ IF messages # <<>> /\ messages[Len(messages)].type = "tool"
       THEN \E llm_ok \in BOOLEAN :
              /\ messages' = IF llm_ok THEN Append(messages, AIMessage("summary", <<>>))
                             ELSE messages
              /\ error_count' = IF llm_ok THEN error_count ELSE error_count + 1
              /\ step_buffers' = NodeRecords(
                     <<IF llm_ok THEN Conclusion("tool_based_response", 90)
                       ELSE Conclusion("respond_error", 0)>>)
              /\ last_call' = [Call("respond", session_id) EXCEPT !.raised = ~llm_ok]
       ELSE /\ messages' = messages
            /\ error_count' = error_count
            /\ step_buffers' = NodeRecords(
                   IF messages # <<>> /\ messages[Len(messages)].type = "ai"
                   THEN <<Conclusion("direct_response", 85)>> ELSE <<>>)
            /\ last_call' = Call("respond", session_id)
    /\ node' = "END"
    /\ executed' = Append(executed, Ran("respond", error_count', tool_calls, messages',
                                     step_buffers'))
    /\ responses' = responses \o StreamEvent("respond", messages', thinking_process,
                                             tool_calls)
    /\ UNCHANGED <<tool_calls, thinking_process, user_id, session_id,
                   enable_thinking_tracking, active_sessions, db_steps, db_sessions,
                   client_vars>>

\* the text _error_handler_node chooses (483-486)
HarshMessage(ec) == "technical_difficulties"
error_msg(ec) == IF ec >= max_errors THEN "technical_difficulties" ELSE "error_try_again"

\* _error_handler_node (481-492), the edge to END and the event of the node
ErrorHandlerNode ==
    /\ node = "error_handler"
    /\ UNCHANGED not_agent_vars
    /\ messages' = Append(messages, AIMessage(error_msg(error_count), <<>>))
    /\ node' = "END"
    /\ executed' = Append(executed, Ran("error_handler", error_count, tool_calls, messages',
                                     step_buffers))
    /\ responses' = responses \o StreamEvent("error_handler", messages', thinking_process,
                                             tool_calls)
    /\ last_call' = Call("error_handler", session_id)
    /\ UNCHANGED <<tool_calls, error_count, thinking_process, user_id, session_id,
                   enable_thinking_tracking, tracker_vars, client_vars>>

\* process_message after the last event (604-613): the tracking scope is left
\* and the generator finishes
FinishTurn(flush_ok, update_ok) ==
    /\ node = "END"
    /\ UNCHANGED not_agent_vars
    /\ node' = "DONE"
    /\ IF enable_thinking_tracking
       THEN LET out == TrackSessionExitResult(active_sessions, step_buffers, db_steps,
                                               db_sessions, session_id, flush_ok, update_ok)
            IN /\ active_sessions' = out.active
               /\ step_buffers' = out.buffers
               /\ db_steps' = out.steps
               /\ db_sessions' = out.sessions
       ELSE UNCHANGED tracker_vars
    /\ last_call' = [Call("finish_turn", session_id) EXCEPT !.db_ok = flush_ok]
    /\ UNCHANGED <<messages, tool_calls, error_count, thinking_process, user_id,
                   session_id, enable_thinking_tracking, executed, responses, client_vars>>

Init ==
    /\ messages = <<>>
    /\ tool_calls = <<>>
    /\ error_count = error_count_default
    /\ thinking_process = <<>>
    /\ user_id = ""
    /\ session_id = ""
    /\ enable_thinking_tracking = FALSE
    /\ node = "START"
    /\ executed = <<>>
    /\ responses = <<>>
    /\ active_sessions = EmptyDict
    /\ step_buffers = EmptyDict
    /\ db_steps = <<>>
    /\ db_sessions = <<>>
    /\ recorded = EmptyDict
    /\ n_recorded = 0
    /\ n_scopes = 0
    /\ last_call = Call("init", "")
    /\ connections = EmptyDict
    /\ connection_queues = EmptyDict
    /\ running = FALSE
    /\ since_sweep = 0
    /\ broadcast_tasks = <<>>
    /\ last_broadcast = <<>>
    /\ swept = {}
    /\ stream_pc = EmptyDict
    /\ delivered = EmptyDict
    /\ n_created = 0
    /\ n_messages = 0
    /\ db_messages = <<>>
    /\ create_calls = [caller \in Callers |-> NoCall]
    /\ n_create_calls = 0
    /\ issued = {}
    /\ user_sessions = {}
    /\ auth_now = 0
    /\ n_logins = 0
    /\ logged_out = {}
    /\ auth_response = NoResponse
    /\ chat_sessions = {}
    /\ chat_response = NoChatResponse
    /\ open_scopes = [sid \in SessionIds |-> 0]
    /\ flush_call = NoFlush

\* one turn of the agent
NextAgent ==
    \/ \E sid \in SessionIds, uid \in UserIds, thinking_enabled \in BOOLEAN,
          create_ok \in BOOLEAN : ProcessMessage(sid, uid, thinking_enabled, create_ok)
    \/ ThinkNode
    \/ ActNode
    \/ UseToolsNode
    \/ RespondNode
    \/ ErrorHandlerNode
    \/ \E flush_ok \in BOOLEAN, update_ok \in BOOLEAN : FinishTurn(flush_ok, update_ok)

SpecAgent == Init /\ [][NextAgent]_vars

(***************************************************************************)
(* A client of the ThinkingTracker that runs one call at a time: it opens  *)
(* scopes, records steps through every recorder, with and without          *)
(* auto_flush, on ids with and without an open scope, and leaves scopes,   *)
(* while the store accepts or refuses each transaction.                    *)
(***************************************************************************)
Recorders == {"add_thinking_step", "add_observation", "add_analysis", "add_decision",
              "add_tool_call", "add_conclusion"}
Confidences == {90}

\* the ThinkingStepData each recorder builds (137-244); add_thinking_step is
\* handed a step by its caller
StepOf(recorder, title, confidence) ==
    CASE recorder = "add_observation" -> Observation(title, confidence)
      [] recorder = "add_analysis" -> Analysis(title, confidence)
      [] recorder = "add_decision" -> Decision(title, confidence, -1)
      [] recorder = "add_tool_call" ->
             [ToolCallStep("weather_query", "None", confidence) EXCEPT !.title = title]
      [] recorder = "add_conclusion" -> Conclusion(title, confidence)
      [] OTHER -> ThinkingStepData(title, "reflection", "evaluation", "None", "None",
                                   confidence, -1)

RECURSIVE Titles(_)
Titles(entries) ==
    IF entries = <<>> THEN <<>> ELSE <<Head(entries).title>> \o Titles(Tail(entries))

\* entering a track_session scope (81-98)
TrackSessionEnter(sid, uid, create_ok) ==
    /\ n_scopes < MaxScopes
    /\ UNCHANGED not_agent_vars
    /\ sid \notin DOMAIN active_sessions
    /\ active_sessions' = DictPut(active_sessions, sid, ThinkingContext(sid, uid))
    /\ step_buffers' = DictPut(step_buffers, sid, <<>>)
    /\ db_sessions' = CreateThinkingSession(db_sessions, sid, uid, create_ok)
    /\ recorded' = DictPut(recorded, sid,
                           Titles(OrderByStepNumber(SeqFilter(db_steps, sid))))
    /\ n_scopes' = n_scopes + 1
    /\ last_call' = [Call("track_session_enter", sid) EXCEPT !.db_ok = create_ok]
    /\ UNCHANGED <<agent_vars, db_steps, n_recorded>>

\* one recorder call (110-244); only add_thinking_step can ask for auto_flush
Record(sid, recorder, confidence, auto_flush, db_ok) ==
    /\ n_recorded < MaxSteps
    /\ UNCHANGED not_agent_vars
    /\ auto_flush => recorder = "add_thinking_step"
    \* the store is asked only by a flush of a buffer that holds a step
    /\ ~db_ok => auto_flush /\ sid \in DOMAIN active_sessions
    /\ LET step_data == StepOf(recorder, ToString(n_recorded + 1), confidence)
           out == AddThinkingStep(active_sessions, step_buffers, db_steps, sid,
                                  step_data, auto_flush, db_ok)
           accepted == out.buffers # step_buffers \/ out.steps # db_steps
       IN /\ step_buffers' = out.buffers
          /\ db_steps' = out.steps
          /\ n_recorded' = IF accepted THEN n_recorded + 1 ELSE n_recorded
          /\ recorded' = IF accepted /\ sid \in DOMAIN recorded
                         THEN [recorded EXCEPT ![sid] = Append(@, step_data.title)]
                         ELSE recorded
          /\ last_call' = [Call(recorder, sid) EXCEPT
                              !.auto_flush = auto_flush,
                              !.was_active = sid \in DOMAIN active_sessions,
                              !.db_ok = db_ok,
                              !.raised = out.raised]
    /\ UNCHANGED <<agent_vars, active_sessions, db_sessions, n_scopes>>

\* leaving a track_session scope (100-108), after its body ended or raised
TrackSessionExit(sid, body_raised, flush_ok, update_ok) ==
    /\ sid \in DOMAIN active_sessions
    /\ UNCHANGED not_agent_vars
    \* the store is asked to flush only a buffer that holds a step
    /\ ~flush_ok => step_buffers[sid] # <<>>
    /\ LET out == TrackSessionExitResult(active_sessions, step_buffers, db_steps,
                                         db_sessions, sid, flush_ok, update_ok)
       IN /\ active_sessions' = out.active
          /\ step_buffers' = out.buffers
          /\ db_steps' = out.steps
          /\ db_sessions' = out.sessions
    /\ recorded' = DictPop(recorded, sid)
    /\ last_call' = [Call("track_session_exit", sid) EXCEPT
                        !.was_active = TRUE,
                        !.db_ok = flush_ok,
                        !.body_raised = body_raised,
                        !.buffered = IF sid \in DOMAIN step_buffers
                                     THEN Len(step_buffers[sid]) ELSE 0]
    /\ UNCHANGED <<agent_vars, n_recorded, n_scopes>>

NextTracker ==
    \/ \E sid \in SessionIds, create_ok \in BOOLEAN : TrackSessionEnter(sid, "u1", create_ok)
    \/ \E sid \in SessionIds, recorder \in Recorders, confidence \in Confidences,
          auto_flush \in BOOLEAN, db_ok \in BOOLEAN :
          Record(sid, recorder, confidence, auto_flush, db_ok)
    \/ \E sid \in SessionIds, body_raised \in BOOLEAN, flush_ok \in BOOLEAN,
          update_ok \in BOOLEAN : TrackSessionExit(sid, body_raised, flush_ok, update_ok)

SpecTracker == Init /\ [][NextTracker]_vars

(***************************************************************************)
(* StreamService (stream_service.py).  Time is counted in ticks; of a      *)
(* timestamp only its distance to the present is kept, because that is all *)
(* the service reads of it (514): heartbeat_age is now - last_heartbeat,    *)
(* and it stops growing once it is above connection_timeout.               *)
(***************************************************************************)
\* capacity of a connection's queue; the service is built with 1000 (112)
max_queue_size == 2
\* the heartbeat loop's sleep and the read timeout, in ticks (110)
heartbeat_interval == 1
\* in ticks (111)
connection_timeout == 2
\* the ids of the connections created in one behaviour, in creation order;
\* uuid4 ids are never handed out twice
ConnIds == {1, 2}
MaxConnections == Cardinality(ConnIds)
\* StreamMessage objects the callers build in one behaviour
MaxMessages == 3
\* heartbeat events one generator emits
MaxHeartbeats == 1

StreamUsers == {"u1", "u2"}
\* "None" is the session id left out
StreamSessions == {"s1", "None"}

\* StreamMessage (44-53); sequence 0 is None.  obj names the Python object: a
\* message a caller built has its own number, a message the service builds
\* for one send has obj 0
StreamMessage(event_type, obj) ==
    [event_type |-> event_type, sequence |-> 0, obj |-> obj]

\* StreamConnection (82-92)
StreamConnection(uid, sid) ==
    [user_id |-> uid, session_id |-> sid, status |-> "connecting",
     heartbeat_age |-> 0, sequence_number |-> 0]

\* StreamConnection.next_sequence (94-97): the number it returns
SameSequence(connection) == connection.sequence_number
next_sequence(connection) == connection.sequence_number + 1

\* message.sequence = ... (285) writes to the object, which may be waiting in
\* other queues already
SetSequence(queues, obj, seq) ==
    [c \in DOMAIN queues |->
        [i \in 1..Len(queues[c]) |->
            IF obj # 0 /\ queues[c][i].obj = obj
            THEN [queues[c][i] EXCEPT !.sequence = seq] ELSE queues[c][i]]]

\* queue.put_nowait after QueueFull (293-313)
DropNewest(queue, error_message) == queue
EvictOldest(queue, error_message) == Append(Tail(queue), error_message)

\* StreamService.send_message (257-317); it has no await that suspends
SendMessage(conns, queues, cid, message) ==
    IF cid \notin DOMAIN conns \/ cid \notin DOMAIN queues
    THEN [connections |-> conns, queues |-> queues, accepted |-> FALSE, assigned |-> 0]
    ELSE LET seq == next_sequence(conns[cid])
             conns1 == [conns EXCEPT ![cid].sequence_number = seq]
             marked == SetSequence(queues, message.obj, seq)
             msg == [message EXCEPT !.sequence = seq]
         IN IF Len(marked[cid]) < max_queue_size
            THEN [connections |-> conns1,
                  queues |-> [marked EXCEPT ![cid] = Append(@, msg)],
                  accepted |-> TRUE, assigned |-> seq]
            ELSE [connections |-> conns1,
                  queues |-> [marked EXCEPT
                                 ![cid] = EvictOldest(@, StreamMessage("error", 0))],
                  accepted |-> FALSE, assigned |-> seq]

\* StreamService.disconnect (217-255): the status message is sent, then the
\* connection and its queue are removed and the queue is emptied
NoDisconnect(conns, queues, cid) == [connections |-> conns, queues |-> queues]
MarkDisconnected(conns, queues, cid) ==
    [connections |-> [c \in DOMAIN conns |->
                        IF c = cid THEN [conns[c] EXCEPT !.status = "disconnected"]
                        ELSE conns[c]],
     queues |-> queues]
Disconnect(conns, queues, cid) ==
    IF cid \notin DOMAIN conns
    THEN [connections |-> conns, queues |-> queues]
    ELSE LET sent == SendMessage(conns, queues, cid, StreamMessage("connection_status", 0))
         IN [connections |-> DictPop(sent.connections, cid),
             queues |-> DictPop(sent.queues, cid)]

RECURSIVE DisconnectAll(_, _, _)
\* disconnect for each id of a list, one after the other
DisconnectAll(conns, queues, ids) ==
    IF ids = {} THEN [connections |-> conns, queues |-> queues]
    ELSE LET cid == CHOOSE c \in ids : \A d \in ids : c <= d
             out == Disconnect(conns, queues, cid)
         IN DisconnectAll(out.connections, out.queues, ids \ {cid})

\* the filter of broadcast_message (335-344); a filter of "None" is not given
AllMatch(connection, user_filter, session_filter) == TRUE
Matches(connection, user_filter, session_filter) ==
    /\ ~(user_filter # "None" /\ connection.user_id # user_filter)
    /\ ~(session_filter # "None" /\ connection.session_id # session_filter)

RECURSIVE TargetConnections(_, _, _, _)
\* target_connections (333-344), in the order of the registry: ids are handed
\* out in creation order
TargetConnections(conns, user_filter, session_filter, from) ==
    IF from > MaxConnections THEN <<>>
    ELSE (IF from \in DOMAIN conns /\ Matches(conns[from], user_filter, session_filter)
          THEN <<from>> ELSE <<>>)
         \o TargetConnections(conns, user_filter, session_filter, from + 1)

RECURSIVE SendToAll(_, _, _, _)
\* the send tasks of gather (347-353), run in the order they were created
SendToAll(conns, queues, targets, message) ==
    IF targets = <<>> THEN [connections |-> conns, queues |-> queues, accepted |-> {}]
    ELSE LET one == SendMessage(conns, queues, Head(targets), message)
             rest == SendToAll(one.connections, one.queues, Tail(targets), message)
         IN [connections |-> rest.connections, queues |-> rest.queues,
             accepted |-> rest.accepted \cup
                          (IF one.accepted THEN {Head(targets)} ELSE {})]

\* the event get_event_stream yields for a message (to_sse_format, 54-79)
to_sse_format(message) ==
    [event_type |-> message.event_type, sequence |-> message.sequence, obj |-> message.obj]
\* the events built in get_event_stream itself
OwnEvent(event_type) == [event_type |-> event_type, sequence |-> 0, obj |-> 0]


\* start (118-132): the heartbeat loop's first pass is due at once
StartService ==
    /\ ~running
    /\ running' = TRUE
    /\ since_sweep' = heartbeat_interval
    /\ UNCHANGED <<connections, connection_queues, broadcast_tasks, last_broadcast, stream_pc,
                   delivered, n_created, n_messages, swept, not_stream_vars>>

\* stop (134-159): the tasks are cancelled and every connection is disconnected
StopService ==
    /\ running
    /\ running' = FALSE
    /\ LET out == DisconnectAll(connections, connection_queues, DOMAIN connections)
       IN /\ connections' = out.connections
          /\ connection_queues' = out.queues
    /\ UNCHANGED <<since_sweep, broadcast_tasks, last_broadcast, stream_pc, delivered, n_created,
                   n_messages, swept, not_stream_vars>>

\* create_connection (161-215)
CreateConnection(uid, sid) ==
    /\ n_created < MaxConnections
    /\ LET connection_id == n_created + 1
           stored == DictPut(connections, connection_id, StreamConnection(uid, sid))
           sent == SendMessage(stored, DictPut(connection_queues, connection_id, <<>>),
                               connection_id, StreamMessage("connection_status", 0))
       IN /\ connections' = [sent.connections EXCEPT ![connection_id].status = "connected"]
          /\ connection_queues' = sent.queues
    /\ n_created' = n_created + 1
    /\ UNCHANGED <<running, since_sweep, broadcast_tasks, last_broadcast, stream_pc, delivered,
                   n_messages, swept, not_stream_vars>>

\* disconnect (217-255) called from outside the service
DisconnectConnection(cid) ==
    /\ cid \in DOMAIN connections
    /\ LET out == Disconnect(connections, connection_queues, cid)
       IN /\ connections' = out.connections
          /\ connection_queues' = out.queues
    /\ UNCHANGED <<running, since_sweep, broadcast_tasks, last_broadcast, stream_pc, delivered,
                   n_created, n_messages, swept, not_stream_vars>>

\* send_message (257-317) with a message the caller has just built
SendMessageCall(cid) ==
    /\ n_messages < MaxMessages
    /\ LET obj == n_messages + 1
           sent == SendMessage(connections, connection_queues, cid,
                               StreamMessage("message", obj))
       IN /\ connections' = sent.connections
          /\ connection_queues' = sent.queues
    /\ n_messages' = n_messages + 1
    /\ UNCHANGED <<running, since_sweep, broadcast_tasks, last_broadcast, stream_pc, delivered,
                   n_created, swept, not_stream_vars>>

\* broadcast_message up to gather (319-353): the targets are chosen and one
\* send task per target is created
BroadcastMessage(user_filter, session_filter) ==
    /\ n_messages < MaxMessages
    /\ broadcast_tasks = <<>>
    /\ LET obj == n_messages + 1
           target_connections == TargetConnections(connections, user_filter,
                                                   session_filter, 1)
       IN /\ broadcast_tasks' = IF target_connections = <<>> THEN <<>>
                                ELSE <<[targets |-> target_connections,
                                        message |-> StreamMessage("message", obj),
                                        user_filter |-> user_filter,
                                        session_filter |-> session_filter]>>
    /\ n_messages' = n_messages + 1
    /\ UNCHANGED <<connections, connection_queues, running, since_sweep, last_broadcast,
                   stream_pc, delivered, n_created, swept, not_stream_vars>>

\* the send tasks of a broadcast run (347-355), one after the other
BroadcastSends ==
    /\ broadcast_tasks # <<>>
    /\ LET task == Head(broadcast_tasks)
           out == SendToAll(connections, connection_queues, task.targets, task.message)
       IN /\ connections' = out.connections
          /\ connection_queues' = out.queues
          /\ last_broadcast' = <<[targets |-> task.targets, accepted |-> out.accepted,
                                   obj |-> task.message.obj,
                                   user_filter |-> task.user_filter,
                                   session_filter |-> task.session_filter]>>
    /\ broadcast_tasks' = Tail(broadcast_tasks)
    /\ UNCHANGED <<running, since_sweep, stream_pc, delivered, n_created, n_messages,
                   swept, not_stream_vars>>

\* a tick of the clock: every timestamp is one tick older.  The heartbeat
\* loop wakes when its sleep is over, so no tick passes a pass that is due
Tick ==
    /\ running => since_sweep < heartbeat_interval
    /\ connections' = [c \in DOMAIN connections |->
                         [connections[c] EXCEPT !.heartbeat_age =
                             IF @ > connection_timeout THEN @ ELSE @ + 1]]
    /\ since_sweep' = IF running THEN since_sweep + 1 ELSE since_sweep
    /\ UNCHANGED <<connection_queues, running, broadcast_tasks, last_broadcast, stream_pc, delivered,
                   n_created, n_messages, swept, not_stream_vars>>

\* connections the heartbeat loop finds timed out (512-516)
SweepAll(conns) == DOMAIN conns
SweepNone(conns) == {}
TimedOut(conns) == {c \in DOMAIN conns : conns[c].heartbeat_age > connection_timeout}

\* one pass of _heartbeat_loop (508-520), up to its sleep
HeartbeatSweep ==
    /\ running
    /\ since_sweep = heartbeat_interval
    /\ LET out == DisconnectAll(connections, connection_queues, TimedOut(connections))
       IN /\ connections' = out.connections
          /\ connection_queues' = out.queues
    /\ since_sweep' = 0
    /\ swept' = swept \cup TimedOut(connections)
    /\ UNCHANGED <<running, broadcast_tasks, last_broadcast, stream_pc, delivered, n_created,
                   n_messages, not_stream_vars>>

\* the events one generator has yielded, with one more
Yield(cid, event) == [delivered EXCEPT ![cid] = Append(@, event)]
Heartbeats(events) ==
    Cardinality({i \in 1..Len(events) : events[i].event_type = "heartbeat"})

\* get_event_stream (357-390) up to its first yield: without the connection
\* the generator ends at once, with it the first event is stream_start
StreamOpen(cid) ==
    /\ cid \notin DOMAIN stream_pc
    /\ IF cid \in DOMAIN connections
       THEN /\ stream_pc' = DictPut(stream_pc, cid, "yielded")
            /\ delivered' = DictPut(delivered, cid, <<OwnEvent("stream_start")>>)
       ELSE /\ stream_pc' = DictPut(stream_pc, cid, "done")
            /\ delivered' = DictPut(delivered, cid, <<>>)
    /\ UNCHANGED <<connections, connection_queues, running, since_sweep,
                   broadcast_tasks, last_broadcast, n_created, n_messages, swept, not_stream_vars>>

\* while connection_id in self.connections  (393)
LoopCondition(cid) == cid \in DOMAIN connections

\* the consumer asks for the next event after one yielded in the loop: the
\* loop condition (393) either starts the wait on the queue (396-399) or ends
\* the loop, and then the finally block yields stream_end (448-459); after
\* the error event of a failed read (431-432) the loop is left likewise
StreamResume(cid) ==
    /\ cid \in DOMAIN stream_pc
    /\ stream_pc[cid] \in {"yielded", "read_error"}
    /\ IF stream_pc[cid] = "yielded" /\ LoopCondition(cid)
       THEN /\ stream_pc' = [stream_pc EXCEPT ![cid] = "waiting"]
            /\ UNCHANGED delivered
       ELSE /\ stream_pc' = [stream_pc EXCEPT ![cid] = "ending"]
            /\ delivered' = Yield(cid, OwnEvent("stream_end"))
    /\ UNCHANGED <<connections, connection_queues, running, since_sweep,
                   broadcast_tasks, last_broadcast, n_created, n_messages, swept, not_stream_vars>>

\* connection.last_heartbeat = datetime.now(timezone.utc)  (402)
Untouched(connection) == connection
Touch(connection) == [connection EXCEPT !.heartbeat_age = 0]

\* what queue.get() leaves in the queue (396-399)
Peek(queue) == queue
Dequeue(queue) == Tail(queue)

\* queue.get() returns a message (396-405): the heartbeat timestamp is set to
\* the present and the message is yielded
StreamRead(cid) ==
    /\ cid \in DOMAIN stream_pc
    /\ stream_pc[cid] = "waiting"
    /\ cid \in DOMAIN connection_queues
    /\ connection_queues[cid] # <<>>
    /\ connection_queues' = [connection_queues EXCEPT ![cid] = Dequeue(@)]
    /\ connections' = [connections EXCEPT ![cid] = Touch(@)]
    /\ delivered' = Yield(cid, to_sse_format(Head(connection_queues[cid])))
    /\ stream_pc' = [stream_pc EXCEPT ![cid] = "yielded"]
    /\ UNCHANGED <<running, since_sweep, broadcast_tasks, last_broadcast, n_created, n_messages,
                   swept, not_stream_vars>>

\* the wait times out (407-417): a heartbeat event is yielded.  The queue the
\* generator holds is empty, always so once the connection was disconnected.
\* The heartbeats of a registered connection are counted up to MaxHeartbeats;
\* the wait that was pending when the connection was removed still times out
StreamTimeout(cid) ==
    /\ cid \in DOMAIN stream_pc
    /\ stream_pc[cid] = "waiting"
    /\ cid \in DOMAIN connection_queues => connection_queues[cid] = <<>>
    /\ Heartbeats(delivered[cid]) < MaxHeartbeats \/ cid \notin DOMAIN connections
    /\ delivered' = Yield(cid, OwnEvent("heartbeat"))
    /\ stream_pc' = [stream_pc EXCEPT ![cid] = "yielded"]
    /\ UNCHANGED <<connections, connection_queues, running, since_sweep,
                   broadcast_tasks, last_broadcast, n_created, n_messages, swept, not_stream_vars>>

\* the wait raises (419-432): an error event is yielded and the loop is left
StreamReadError(cid) ==
    /\ cid \in DOMAIN stream_pc
    /\ stream_pc[cid] = "waiting"
    /\ delivered' = Yield(cid, OwnEvent("error"))
    /\ stream_pc' = [stream_pc EXCEPT ![cid] = "read_error"]
    /\ UNCHANGED <<connections, connection_queues, running, since_sweep,
                   broadcast_tasks, last_broadcast, n_created, n_messages, swept, not_stream_vars>>

\* the consumer asks for the event after stream_end: the finally block
\* disconnects (461-464) and the generator is exhausted
StreamFinish(cid) ==
    /\ cid \in DOMAIN stream_pc
    /\ stream_pc[cid] = "ending"
    /\ LET out == Disconnect(connections, connection_queues, cid)
       IN /\ connections' = out.connections
          /\ connection_queues' = out.queues
    /\ stream_pc' = [stream_pc EXCEPT ![cid] = "done"]
    /\ UNCHANGED <<running, since_sweep, broadcast_tasks, last_broadcast, delivered, n_created,
                   n_messages, swept, not_stream_vars>>

\* callers that create, disconnect and send, and the consumers of the event
\* streams
NextStream ==
    \/ CreateConnection("u1", "None")
    \/ \E cid \in ConnIds : DisconnectConnection(cid)
    \/ \E cid \in ConnIds : SendMessageCall(cid)
    \/ \E cid \in ConnIds : StreamOpen(cid)
    \/ \E cid \in ConnIds : StreamResume(cid)
    \/ \E cid \in ConnIds : StreamRead(cid)
    \/ \E cid \in ConnIds : StreamTimeout(cid)
    \/ \E cid \in ConnIds : StreamReadError(cid)
    \/ \E cid \in ConnIds : StreamFinish(cid)

SpecStream == Init /\ [][NextStream]_vars

\* callers that create connections for several users and sessions, send,
\* disconnect and broadcast
NextBroadcast ==
    \/ \E uid \in StreamUsers, sid \in StreamSessions : CreateConnection(uid, sid)
    \/ \E cid \in ConnIds : DisconnectConnection(cid)
    \/ \E cid \in ConnIds : SendMessageCall(cid)
    \/ \E user_filter \in StreamUsers \cup {"None"},
          session_filter \in StreamSessions \cup {"s2"} :
          BroadcastMessage(user_filter, session_filter)
    \/ BroadcastSends

SpecBroadcast == Init /\ [][NextBroadcast]_vars

\* the running service with its heartbeat loop, the clock, callers that
\* create and send, and a consumer of the first connection's event stream;
\* the other connection is never read
NextHeartbeat ==
    \/ StartService
    \/ StopService
    \/ CreateConnection("u1", "None")
    \/ \E cid \in ConnIds : SendMessageCall(cid)
    \/ Tick
    \/ HeartbeatSweep
    \/ \E cid \in {1} : StreamOpen(cid)
    \/ \E cid \in {1} : StreamResume(cid)
    \/ \E cid \in {1} : StreamRead(cid)
    \/ \E cid \in {1} : StreamTimeout(cid)
    \/ \E cid \in {1} : StreamFinish(cid)

SpecHeartbeat == Init /\ [][NextHeartbeat]_vars

\* the same without the read timeouts of the consumer, which change nothing
\* the heartbeat loop reads
NextSweep ==
    \/ StartService
    \/ StopService
    \/ CreateConnection("u1", "None")
    \/ \E cid \in ConnIds : SendMessageCall(cid)
    \/ Tick
    \/ HeartbeatSweep
    \/ \E cid \in {1} : StreamOpen(cid)
    \/ \E cid \in {1} : StreamResume(cid)
    \/ \E cid \in {1} : StreamRead(cid)
    \/ \E cid \in {1} : StreamFinish(cid)

\* time passes and the heartbeat loop's task runs when its sleep is over
SpecSweepFair ==
    Init /\ [][NextSweep]_vars /\ WF_vars(Tick) /\ WF_vars(HeartbeatSweep)

(***************************************************************************)
(* Properties of a turn (SpecAgent).                                       *)
(***************************************************************************)
TurnOver == node = "DONE"
NodesRun == {executed[i].node : i \in 1..Len(executed)}
LastRun == IF executed = <<>> THEN "none" ELSE executed[Len(executed)].node
\* the node that ran after the i-th one, or the one about to run
NextAfter(i) == IF i < Len(executed) THEN executed[i + 1].node ELSE node
AIResponses == {i \in 1..Len(responses) : responses[i].message_type = "ai"}
ToolMessages == {i \in 1..Len(messages) : messages[i].type = "tool"}

\* C1: every turn, whatever nodes fail in it, has yielded at least one AI-typed
\* AgentResponse by the time the generator finishes.
C1_AlwaysAnAIResponse == TurnOver => AIResponses # {}

\* C1, the turn that shows it: think fails, the error node appends its message,
\* and the generator finishes without having yielded anything.
C1_ErrorTurnYieldsNothing ==
    /\ TurnOver
    /\ LastRun = "error_handler"
    /\ messages[Len(messages)].type = "ai"
    /\ responses = <<>>

\* C2: a turn that ends via respond ends with error_count <= max_errors, and a
\* turn whose error_count exceeds max_errors has not run respond.
C2_RespondWithinMaxErrors ==
    /\ (node \in {"END", "DONE"} /\ LastRun = "respond") => error_count <= max_errors
    /\ error_count > max_errors => "respond" \notin NodesRun

\* C2, its case: a turn that ended via respond after respond's own LLM call failed.
C2_RespondEndedWithError ==
    TurnOver /\ LastRun = "respond" /\ error_count = 1

\* C3: after think the next node is error_handler exactly when error_count > 0
\* and act otherwise; in a turn whose think failed, act, use_tools and respond
\* do not run.
C3_ThinkRouting ==
    /\ \A i \in 1..Len(executed) :
         executed[i].node = "think" =>
            /\ (NextAfter(i) = "error_handler") <=> (executed[i].error_count > 0)
            /\ (NextAfter(i) = "act") <=> (executed[i].error_count = 0)
    /\ (executed # <<>> /\ executed[1].node = "think" /\ executed[1].error_count > 0)
          => NodesRun \cap {"act", "use_tools", "respond"} = {}

\* C3, its case: a finished turn whose think node failed.
C3_ThinkFailedTurn ==
    TurnOver /\ executed[1].node = "think" /\ executed[1].error_count > 0

\* C4: after act the next node is error_handler when error_count > 0, otherwise
\* use_tools when a tool call is pending, otherwise respond; so the next node is
\* decided by these two values alone.
C4_ActRouting ==
    \A i \in 1..Len(executed) :
       executed[i].node = "act" =>
          /\ executed[i].error_count > 0 => NextAfter(i) = "error_handler"
          /\ (executed[i].error_count = 0 /\ executed[i].pending # <<>>)
                => NextAfter(i) = "use_tools"
          /\ (executed[i].error_count = 0 /\ executed[i].pending = <<>>)
                => NextAfter(i) = "respond"

\* C4, its case: a finished turn in which act left a pending tool call and
\* use_tools ran next.
C4_ActThenUseTools ==
    /\ TurnOver
    /\ \E i \in 1..Len(executed) :
         executed[i].node = "act" /\ executed[i].pending # <<>>
         /\ NextAfter(i) = "use_tools"

\* C5: for a pending call naming no registered tool, use_tools appends a tool
\* message saying "not found" with the call's id, records a tool-call step with
\* confidence 0, leaves error_count as it was, handles the calls after it and
\* hands over to respond.
C5_UnknownToolHandled ==
    \A i \in 2..Len(executed) :
       executed[i].node = "use_tools" =>
          LET pending == executed[i - 1].pending
              base == executed[i - 1].n_messages
              sbase == executed[i - 1].n_steps
          IN \A j \in 1..Len(pending) :
                pending[j].name \notin RegisteredTools =>
                   /\ messages[base + j] = ToolMessage("not_found", pending[j].id)
                   /\ (Tracking /\ session_id \in DOMAIN step_buffers) =>
                         LET step == step_buffers[session_id][sbase + 2 * j]
                         IN /\ step.step_type = "tool_call"
                            /\ step.tool_name = pending[j].name
                            /\ step.tool_output = "not_found"
                            /\ step.confidence = 0
                   /\ executed[i].error_count = executed[i - 1].error_count
                   /\ \A k \in (j + 1)..Len(pending) :
                         /\ messages[base + k].type = "tool"
                         /\ messages[base + k].tool_call_id = pending[k].id
                   /\ NextAfter(i) = "respond"

\* C5, its case: use_tools has just run on an unknown tool followed by a
\* registered one, with step recording on.
C5_UnknownThenKnown ==
    /\ node = "respond" /\ LastRun = "use_tools" /\ Tracking
    /\ LET pending == executed[Len(executed) - 1].pending
       IN /\ Len(pending) = 2
          /\ pending[1].name = "bogus_tool"
          /\ pending[2].name = "weather_query"

\* C6: after use_tools has run on k pending calls the history has grown by
\* exactly k tool messages, in the order of the calls and each with the id of
\* its call, and no call is pending, whatever each call came to.
C6_OneToolMessagePerCall ==
    \A i \in 2..Len(executed) :
       executed[i].node = "use_tools" =>
          LET pending == executed[i - 1].pending
              base == executed[i - 1].n_messages
          IN /\ executed[i].n_messages = base + Len(pending)
             /\ \A j \in 1..Len(pending) :
                   /\ messages[base + j].type = "tool"
                   /\ messages[base + j].tool_call_id = pending[j].id
             /\ executed[i].pending = <<>>

\* C6, its case: use_tools has just run on two calls, one naming an unknown
\* tool and one whose invocation raised.
C6_FailedAndUnknown ==
    /\ node = "respond" /\ LastRun = "use_tools"
    /\ executed[Len(executed) - 1].pending # <<>>
    /\ \E a, b \in ToolMessages :
          messages[a].content = "not_found" /\ messages[b].content = "tool_error"

\* the turn asked for exactly one tool call in act's reply
ActAskedOneCall ==
    \E i \in 1..Len(executed) :
       /\ executed[i].node = "act"
       /\ executed[i].error_count = 0
       /\ Len(messages[executed[i].n_messages].tool_calls) = 1

\* C7: in a turn whose act reply asks for exactly one tool call, act records
\* one pending call, use_tools appends one tool message and the turn yields
\* exactly one AI response, which carries no tool calls.
C7_OneCallOneResponse ==
    (TurnOver /\ ActAskedOneCall) =>
       /\ \A i \in 1..Len(executed) :
             executed[i].node = "act" => Len(executed[i].pending) = 1
       /\ Cardinality(ToolMessages) = 1
       /\ Cardinality(AIResponses) = 1
       /\ \A r \in AIResponses : responses[r].tool_calls = <<>>

\* C7, the turn that shows it: one tool call, the tool answers, and the LLM call
\* of respond fails, so nothing is yielded.
C7_RespondFailedAfterTool ==
    /\ TurnOver /\ ActAskedOneCall
    /\ LastRun = "respond"
    /\ error_count = 1
    /\ AIResponses = {}

(***************************************************************************)
(* Properties of the tracker (SpecTracker).                                *)
(***************************************************************************)
RowsOf(steps, sid) == OrderByStepNumber(SeqFilter(steps, sid))
\* what a step says, whether it is buffered, persisted or read back
Payload(x) == [title |-> x.title, phase |-> x.phase, step_type |-> x.step_type,
               tool_name |-> x.tool_name, tool_output |-> x.tool_output,
               confidence |-> x.confidence, importance |-> x.importance]
Payloads(entries) == [i \in 1..Len(entries) |-> Payload(entries[i])]

\* C8: while a session is tracked, get_session_steps with the buffer included
\* returns one entry per step recorded on it, numbered 1..N in recording order,
\* however many flushes happened in between.
C8_StepsNumberedInOrder ==
    \A sid \in DOMAIN active_sessions :
       LET got == GetSessionSteps(step_buffers, db_steps, sid, TRUE, TRUE)
       IN /\ Len(got) = Len(recorded[sid])
          /\ \A i \in 1..Len(got) :
                got[i].step_number = i /\ got[i].title = recorded[sid][i]

\* C8, its case: a tracked session with a flushed step in the store and a later
\* step still in its buffer.
C8_FlushedAndBuffered ==
    \E sid \in DOMAIN active_sessions :
       /\ SeqFilter(db_steps, sid) # <<>>
       /\ step_buffers[sid] # <<>>
       /\ Len(recorded[sid]) = MaxSteps

\* C9: a recorder call for a session id with no tracked session does not raise
\* and changes neither a step buffer nor the active-session map nor the store,
\* with auto_flush or without.
C9_UntrackedRecordIsNoOp ==
    [][(last_call'.op \in Recorders /\ ~last_call'.was_active)
          => (UNCHANGED tracker_vars /\ ~last_call'.raised)]_vars

\* C9, its case: add_thinking_step with auto_flush was called for an untracked
\* id while another session had a step buffered.
C9_UntrackedAutoFlushCall ==
    /\ last_call.op = "add_thinking_step"
    /\ last_call.auto_flush
    /\ ~last_call.was_active
    /\ \E other \in DOMAIN step_buffers : step_buffers[other] # <<>>

\* C10: when a track_session scope is left, normally or by an exception of its
\* body, with the final flush succeeding or failing, the id is in neither the
\* active-session map nor the buffer map afterwards; when the flush succeeded
\* the buffered steps are in the store, after the rows it already held.
C10_ScopeExitForgetsSession ==
    [][last_call'.op = "track_session_exit" =>
          LET sid == last_call'.session_id
          IN /\ sid \notin DOMAIN active_sessions'
             /\ sid \notin DOMAIN step_buffers'
             /\ (last_call'.db_ok /\ sid \in DOMAIN step_buffers) =>
                   Payloads(RowsOf(db_steps', sid)) =
                      Payloads(RowsOf(db_steps, sid)) \o Payloads(step_buffers[sid])]_vars

\* C10, its case: a scope whose body raised was left with steps buffered and
\* the final flush failed.
C10_RaisedExitWithFailedFlush ==
    /\ last_call.op = "track_session_exit"
    /\ last_call.body_raised
    /\ ~last_call.db_ok
    /\ last_call.buffered > 0
    /\ last_call.session_id \notin DOMAIN active_sessions

\* confidences a decision can be recorded with, in hundredths
DecisionConfidences == {0, 50, 90, 100}

\* C11: a decision recorded with confidence c and not flushed is read back by
\* get_session_steps(include_buffer=True) as the last entry, with phase planning,
\* step type decision, confidence c and the buffer-origin marker; an entry read
\* from the store never carries the marker.
C11_BufferedDecisionRoundTrip ==
    \A sid \in DOMAIN active_sessions :
       LET persisted == GetSessionSteps(step_buffers, db_steps, sid, FALSE, TRUE)
           got == GetSessionSteps(step_buffers, db_steps, sid, TRUE, TRUE)
       IN /\ \A i \in 1..Len(persisted) : ~persisted[i].from_buffer /\ got[i] = persisted[i]
          /\ \A i \in (Len(persisted) + 1)..Len(got) : got[i].from_buffer
          /\ (last_call.op = "add_decision" /\ last_call.session_id = sid) =>
                /\ got # <<>>
                /\ got[Len(got)].phase = "planning"
                /\ got[Len(got)].step_type = "decision"
                /\ got[Len(got)].confidence \in Confidences
                /\ got[Len(got)].from_buffer
          /\ \A c \in DecisionConfidences :
                LET out == AddThinkingStep(active_sessions, step_buffers, db_steps, sid,
                                           Decision("d", c, -1), FALSE, TRUE)
                    read == GetSessionSteps(out.buffers, out.steps, sid, TRUE, TRUE)
                    e == read[Len(read)]
                IN /\ Len(read) = Len(got) + 1
                   /\ e.phase = "planning" /\ e.step_type = "decision"
                   /\ e.confidence = c /\ e.from_buffer
                   /\ e.id = <<"buffer", Len(step_buffers[sid])>>

\* C11, its case: add_decision has just buffered a step on a tracked session
\* that also has a flushed row in the store.
C11_DecisionBufferedAfterFlush ==
    /\ last_call.op = "add_decision"
    /\ last_call.was_active
    /\ step_buffers[last_call.session_id] # <<>>
    /\ SeqFilter(db_steps, last_call.session_id) # <<>>

(***************************************************************************)
(* Properties of the stream service (SpecStream, SpecBroadcast,            *)
(* SpecHeartbeat).                                                         *)
(***************************************************************************)
Registered == DOMAIN connections
Sequences(entries) == {entries[i].sequence : i \in 1..Len(entries)} \ {0}
QueueFullError == [event_type |-> "error", sequence |-> 0, obj |-> 0]

\* C12: a queue never holds more than max_queue_size messages, and a
\* send_message on a registered connection whose queue is full leaves the
\* queue without its oldest message and with a queue-full error message at
\* its end, the message sent not being enqueued.
C12_FullQueueEvictsOldest ==
    /\ [](\A cid \in DOMAIN connection_queues :
             Len(connection_queues[cid]) <= max_queue_size)
    /\ [][\A cid \in Registered :
             (SendMessageCall(cid) /\ Len(connection_queues[cid]) = max_queue_size) =>
                 /\ Len(connection_queues'[cid]) = max_queue_size
                 /\ \A i \in 1..(max_queue_size - 1) :
                       connection_queues'[cid][i] = connection_queues[cid][i + 1]
                 /\ connection_queues'[cid][max_queue_size] = QueueFullError
                 /\ \A i \in 1..max_queue_size :
                       connection_queues'[cid][i].obj # n_messages']_vars

\* C12, its case: a full queue whose newest entry is the queue-full error
\* message, on a connection that has been sent more messages than fit.
C12_QueueOverflowed ==
    \E cid \in Registered :
       /\ Len(connection_queues[cid]) = max_queue_size
       /\ connection_queues[cid][max_queue_size] = QueueFullError
       /\ connections[cid].sequence_number > max_queue_size

Stale(cid) == cid \in Registered /\ connections[cid].heartbeat_age > connection_timeout
Fresh(cid) == cid \in Registered /\ connections[cid].heartbeat_age <= connection_timeout

\* C13: a pass of the heartbeat loop disconnects exactly the registered
\* connections whose last heartbeat is older than connection_timeout, removing
\* each together with its queue, and keeps every other one; while the service
\* runs, a connection in that condition is eventually disconnected, unless a
\* read by its consumer has renewed its heartbeat before the pass.
C13_SweepDisconnectsStale ==
    /\ [][HeartbeatSweep =>
            /\ \A cid \in Registered : cid \in Registered' <=> Fresh(cid)
            /\ DOMAIN connection_queues' = Registered'
            /\ \A cid \in Registered' : connections'[cid] = connections[cid]]_vars
    /\ \A cid \in ConnIds :
          (running /\ Stale(cid)) ~> (cid \notin Registered \/ Fresh(cid))

\* C13, its case: the service is running and its heartbeat loop has
\* disconnected one connection and kept another, registered one.
C13_OneSweptOneKept ==
    /\ running
    /\ since_sweep = 0
    /\ \E gone \in swept, kept \in Registered : gone # kept /\ gone \notin Registered

\* C14: a send_message that is accepted for a registered connection leaves the
\* connection's last heartbeat no older than that send.
C14_SendResetsHeartbeat ==
    [][\A cid \in Registered :
          (SendMessageCall(cid) /\ Len(connection_queues[cid]) < max_queue_size) =>
              connections'[cid].heartbeat_age = 0]_vars

\* C14, as the code has it: the heartbeat is renewed when the event stream
\* takes a message from the queue, not when send_message accepts one; a send
\* leaves last_heartbeat as it was, and the heartbeat loop keeps every
\* connection whose last heartbeat is within connection_timeout.
C14_ReadResetsHeartbeat ==
    [][\A cid \in Registered :
          /\ StreamRead(cid) =>
                cid \in Registered' /\ connections'[cid].heartbeat_age = 0
          /\ SendMessageCall(cid) =>
                /\ cid \in Registered'
                /\ connections'[cid].heartbeat_age = connections[cid].heartbeat_age
          /\ (HeartbeatSweep /\ Fresh(cid)) => cid \in Registered']_vars

\* C14, its case: the connection nobody reads was disconnected by the
\* heartbeat loop, and the one whose consumer has just read a message is
\* registered with a new heartbeat.
C14_UnreadSweptReadKept ==
    /\ 2 \in swept
    /\ 1 \in Registered
    /\ connections[1].heartbeat_age = 0
    /\ 1 \in DOMAIN stream_pc
    /\ stream_pc[1] = "yielded"
    /\ delivered[1][Len(delivered[1])].event_type = "message"

\* the sequence numbers of a list of messages or events, without the None's
Numbered(entries) == SelectSeq([i \in 1..Len(entries) |-> entries[i].sequence],
                               LAMBDA n : n # 0)
StrictlyIncreasing(numbers) ==
    \A i, j \in 1..Len(numbers) : i < j => numbers[i] < numbers[j]
\* the numbers a connection is known to have assigned: those of the events its
\* stream has yielded, then those of the messages waiting in its queue
Assigned(cid) ==
    (IF cid \in DOMAIN delivered THEN Numbered(delivered[cid]) ELSE <<>>)
    \o Numbered(connection_queues[cid])

\* C15: while a connection is registered its sequence counter never decreases;
\* every send_message on it is assigned a number greater than the counter and
\* than every number assigned on it before, whether the message is enqueued
\* or dropped; the numbers of its delivered and waiting messages are strictly
\* increasing, so none is assigned twice.
C15_SequenceStrictlyIncreases ==
    /\ [](\A cid \in Registered :
             /\ StrictlyIncreasing(Assigned(cid))
             /\ \A i \in 1..Len(Assigned(cid)) :
                   Assigned(cid)[i] <= connections[cid].sequence_number)
    /\ [][\A cid \in Registered :
             /\ cid \in Registered' =>
                   connections'[cid].sequence_number >= connections[cid].sequence_number
             /\ SendMessageCall(cid) =>
                   LET given == connections'[cid].sequence_number
                       queue == connection_queues'[cid]
                   IN /\ given > connections[cid].sequence_number
                      /\ \A i \in 1..Len(Assigned(cid)) : given > Assigned(cid)[i]
                      /\ Len(connection_queues[cid]) < max_queue_size =>
                            /\ queue[Len(queue)].obj = n_messages'
                            /\ queue[Len(queue)].sequence = given]_vars

\* C15, its case: a connection that has delivered a numbered message, dropped
\* one on overflow and then accepted another, which carries the counter's value.
C15_NumbersAcrossOverflow ==
    \E cid \in Registered :
       /\ cid \in DOMAIN delivered
       /\ Numbered(delivered[cid]) # <<>>
       /\ \E i, j \in 1..Len(connection_queues[cid]) :
             /\ i < j
             /\ connection_queues[cid][i] = QueueFullError
             /\ connection_queues[cid][j].sequence = connections[cid].sequence_number

\* the positions of the events of one type among those a stream has yielded
Positions(events, event_type) ==
    {i \in 1..Len(events) : events[i].event_type = event_type}

Range(list) == {list[i] : i \in 1..Len(list)}
\* the message objects waiting in a queue, in order
Objects(queue) == [i \in 1..Len(queue) |-> queue[i].obj]
\* the registered connections a broadcast with these filters is meant for
Addressed(user_filter, session_filter) ==
    {cid \in Registered :
        /\ user_filter = "None" \/ connections[cid].user_id = user_filter
        /\ session_filter = "None" \/ connections[cid].session_id = session_filter}

\* C17: broadcast_message selects exactly the connections registered at the
\* call that match every filter given; when its sends run, the message is
\* appended to the queue of every selected connection that is still
\* registered and has room, a selected connection with a full queue gets the
\* queue-full error in place of its oldest message while the others still get
\* the message, and the queue of every other connection is left as it was.
C17_BroadcastReachesExactlyMatching ==
    [][/\ \A user_filter \in StreamUsers \cup {"None"},
             session_filter \in StreamSessions \cup {"s2"} :
             BroadcastMessage(user_filter, session_filter) =>
                /\ Addressed(user_filter, session_filter) = {} => broadcast_tasks' = <<>>
                /\ Addressed(user_filter, session_filter) # {} =>
                      /\ Len(broadcast_tasks') = 1
                      /\ Range(broadcast_tasks'[1].targets) =
                            Addressed(user_filter, session_filter)
                      /\ Len(broadcast_tasks'[1].targets) =
                            Cardinality(Addressed(user_filter, session_filter))
                /\ connection_queues' = connection_queues
       /\ BroadcastSends =>
             LET task == Head(broadcast_tasks)
                 message == task.message.obj
             IN /\ Registered' = Registered
                /\ \A cid \in Registered :
                      LET queue == connection_queues[cid]
                      IN IF cid \notin Range(task.targets)
                         THEN connection_queues'[cid] = queue
                         ELSE IF Len(queue) < max_queue_size
                         THEN Objects(connection_queues'[cid]) =
                                 Append(Objects(queue), message)
                         ELSE connection_queues'[cid] =
                                 Append(Tail(queue), QueueFullError)]_vars

\* C17, its case: a broadcast filtered by user went to two connections of
\* that user; the send to the first failed on its full queue, the second has
\* the message at the end of its queue.
C17_OneTargetFullOtherServed ==
    /\ last_broadcast # <<>>
    /\ LET done == last_broadcast[1]
       IN /\ done.user_filter # "None"
          /\ Len(done.targets) = 2
          /\ \E full, served \in Registered :
                /\ done.targets = <<full, served>>
                /\ done.accepted = {served}
                /\ done.obj \notin Range(Objects(connection_queues[full]))
                /\ QueueFullError \in Range(connection_queues[full])
                /\ connection_queues[served] # <<>>
                /\ connection_queues[served][Len(connection_queues[served])].obj = done.obj

(***************************************************************************)
(* MessageRepository.create_message (repositories/chat_repository.py) over *)
(* the messages table (models/chat.py).  Every caller works in its own     *)
(* database session: it sees the committed rows and its own, and its rows  *)
(* are seen by the others once it has committed.                           *)
(***************************************************************************)
MaxCreateCalls == 4

\* a row of messages: the columns the sequence numbering depends on, the
\* transaction that inserted it, and whether that transaction has committed
MessageRow(sid, n, caller) ==
    [session_id |-> sid, sequence_number |-> n, owner |-> caller, committed |-> FALSE]

\* the rows a caller's session reads
Visible(caller) ==
    SelectSeq(db_messages, LAMBDA row : row.committed \/ row.owner = caller)
\* the rows other transactions have inserted and not yet committed
Pending(caller) ==
    SelectSeq(db_messages, LAMBDA row : ~row.committed /\ row.owner # caller)

\* select coalesce(max(sequence_number), 0) + 1 where session_id = :sid
_get_next_sequence_number(rows, sid) ==
    LET numbers == {rows[i].sequence_number :
                       i \in {k \in 1..Len(rows) : rows[k].session_id = sid}}
    IN IF numbers = {} THEN 1
       ELSE (CHOOSE n \in numbers : \A m \in numbers : m <= n) + 1

\* UniqueConstraint("session_id", "sequence_number")  (models/chat.py:317)
NoUniqueConstraint(rows, sid, n) == FALSE
uq_session_sequence(rows, sid, n) ==
    \E i \in 1..Len(rows) : rows[i].session_id = sid /\ rows[i].sequence_number = n

\* session.rollback(): the caller's uncommitted rows are gone
Rollback(rows, caller) ==
    SelectSeq(rows, LAMBDA row : row.committed \/ row.owner # caller)

\* create_message up to the result of its query (245-263): the number is the
\* maximum the caller's session sees for the chat session, plus one
CreateMessageRead(caller, sid) ==
    /\ n_create_calls < MaxCreateCalls
    /\ create_calls[caller].pc = "idle"
    /\ create_calls' = [create_calls EXCEPT ![caller] =
          [pc |-> "read", session_id |-> sid,
           sequence_number |-> _get_next_sequence_number(Visible(caller), sid),
           outcome |-> "none"]]
    /\ n_create_calls' = n_create_calls + 1
    /\ UNCHANGED <<db_messages, not_message_vars>>

\* the insert (265-280, base_repository.py:61-79): flush sends the row; the
\* unique constraint rejects it when a row the database has committed, or
\* one of the caller's own, holds the number, and then create rolls the
\* session back and raises.  While another transaction holds the number
\* uncommitted the insert waits for it
CreateMessageInsert(caller) ==
    LET call == create_calls[caller]
    IN /\ call.pc = "read"
       /\ ~uq_session_sequence(Pending(caller), call.session_id, call.sequence_number)
       /\ IF uq_session_sequence(Visible(caller), call.session_id, call.sequence_number)
          THEN /\ db_messages' = Rollback(db_messages, caller)
               /\ create_calls' = [create_calls EXCEPT ![caller].pc = "idle",
                                                        ![caller].outcome = "IntegrityError"]
          ELSE /\ db_messages' = Append(db_messages,
                                        MessageRow(call.session_id, call.sequence_number, caller))
               /\ create_calls' = [create_calls EXCEPT ![caller].pc = "idle",
                                                        ![caller].outcome = "created"]
       /\ UNCHANGED <<n_create_calls, not_message_vars>>

\* the insert gives up waiting on another transaction's uncommitted write
\* (a lock timeout of the database): create rolls back and raises
CreateMessageLockTimeout(caller) ==
    /\ create_calls[caller].pc = "read"
    /\ Pending(caller) # <<>>
    /\ db_messages' = Rollback(db_messages, caller)
    /\ create_calls' = [create_calls EXCEPT ![caller].pc = "idle",
                                             ![caller].outcome = "OperationalError"]
    /\ UNCHANGED <<n_create_calls, not_message_vars>>

\* RepositoryFactory.commit (factory.py:69-77) by a caller between its calls
CommitMessages(caller) ==
    /\ create_calls[caller].pc = "idle"
    /\ \E i \in 1..Len(db_messages) : ~db_messages[i].committed /\ db_messages[i].owner = caller
    /\ db_messages' = [i \in 1..Len(db_messages) |->
                          IF db_messages[i].owner = caller
                          THEN [db_messages[i] EXCEPT !.committed = TRUE]
                          ELSE db_messages[i]]
    /\ UNCHANGED <<create_calls, n_create_calls, not_message_vars>>

\* RepositoryFactory.rollback (factory.py:79-86), or the session closed
\* without a commit (core/database.py:33-43)
RollbackMessages(caller) ==
    /\ create_calls[caller].pc = "idle"
    /\ \E i \in 1..Len(db_messages) : ~db_messages[i].committed /\ db_messages[i].owner = caller
    /\ db_messages' = Rollback(db_messages, caller)
    /\ UNCHANGED <<create_calls, n_create_calls, not_message_vars>>

\* requests creating messages, each in its own transaction
NextMessages ==
    \/ \E caller \in Callers, sid \in ChatSessions : CreateMessageRead(caller, sid)
    \/ \E caller \in Callers : CreateMessageInsert(caller)
    \/ \E caller \in Callers : CreateMessageLockTimeout(caller)
    \/ \E caller \in Callers : CommitMessages(caller)
    \/ \E caller \in Callers : RollbackMessages(caller)

SpecMessages == Init /\ [][NextMessages]_vars

(***************************************************************************)
(* Properties of the message repository (SpecMessages)                     *)
(***************************************************************************)
\* C18: within one chat session the rows of messages carry distinct sequence
\* numbers that increase strictly in the order the rows were created, also
\* when two create_message calls for the session have both read the same
\* maximum before either inserted: the second insert is rejected, its call
\* raises and creates no message.
C18_SequenceNumbersUniqueIncreasing ==
    /\ \A i, j \in 1..Len(db_messages) :
          (i < j /\ db_messages[i].session_id = db_messages[j].session_id) =>
             db_messages[i].sequence_number < db_messages[j].sequence_number
    /\ \A caller \in Callers :
          create_calls[caller].outcome = "created" =>
             create_calls[caller].sequence_number >= 1

\* C18, its case: two calls for the same chat session were given the same
\* number; one created its message and committed, the other was rejected.
C18_OverlappingCallsSameNumber ==
    \E first, second \in Callers :
       /\ first # second
       /\ create_calls[first].outcome = "created"
       /\ create_calls[second].outcome = "IntegrityError"
       /\ create_calls[first].session_id = create_calls[second].session_id
       /\ create_calls[first].sequence_number = create_calls[second].sequence_number
       /\ \E i \in 1..Len(db_messages) :
             /\ db_messages[i].committed
             /\ db_messages[i].session_id = create_calls[first].session_id
             /\ db_messages[i].sequence_number = create_calls[first].sequence_number

(***************************************************************************)
(* Authentication: login, logout and /me (api/auth.py) over the token      *)
(* checks of core/security.py.  Time is in ticks of the clock.             *)
(***************************************************************************)
ACCESS_TOKEN_EXPIRE_MINUTES == 2
REFRESH_TOKEN_EXPIRE == 3
MaxLogins == 2
MaxAuthTime == 3
AuthUsers == {"u1", "u2"}

\* a signed JWT: number k of the login that issued it, its claims sub, type
\* and exp
Token(k, sub, type, exp) == [id |-> k, sub |-> sub, type |-> type, exp |-> exp]
\* a bearer string that is no JWT signed with SECRET_KEY
Garbage == Token(0, "None", "access", 0)

\* create_user_tokens (core/security.py:354-371)
create_user_tokens(k, uid, now) ==
    [access_token |-> Token(k, uid, "access", now + ACCESS_TOKEN_EXPIRE_MINUTES),
     refresh_token |-> Token(k, uid, "refresh", now + REFRESH_TOKEN_EXPIRE)]

\* TokenManager.verify_token (100-128): the signature, the type and the
\* expiry are checked, and nothing else
verify_token(signed, token, token_type, now) ==
    IF token \notin signed THEN "SecurityError"
    ELSE IF token.type # token_type THEN "SecurityError"
    ELSE IF token.exp < now THEN "SecurityError"
    ELSE "ok"

\* verify_token_payload (289-310): 401 for a token verify_token refuses or
\* one without sub, else the payload
verify_token_payload(signed, token, now) ==
    IF verify_token(signed, token, "access", now) # "ok" THEN 401
    ELSE IF token.sub = "None" THEN 401
    ELSE 200

\* what a request is recorded as
Response(request, token, status) ==
    [request |-> request, token |-> token.id, status |-> status,
     after_logout |-> token \in logged_out,
     expired |-> token.exp < auth_now]

\* POST /login (api/auth.py:159-260): after the credentials are checked the
\* tokens are created and a user_sessions row is stored for the access token
Login(uid, password_ok) ==
    /\ n_logins < MaxLogins
    /\ IF password_ok
       THEN LET tokens == create_user_tokens(n_logins + 1, uid, auth_now)
            IN /\ issued' = issued \cup {tokens.access_token, tokens.refresh_token}
               /\ user_sessions' = user_sessions \cup
                     {[user_id |-> uid, token_hash |-> tokens.access_token.id]}
               /\ n_logins' = n_logins + 1
               /\ auth_response' = Response("login", tokens.access_token, 200)
       ELSE /\ auth_response' = Response("login", Garbage, 401)
            /\ UNCHANGED <<issued, user_sessions, n_logins>>
    /\ UNCHANGED <<auth_now, logged_out, not_auth_vars>>

\* POST /logout (306-329): with a token that verifies, every user_sessions
\* row of the user is deleted (user_repository.py:454-470)
Logout(token) ==
    /\ LET status == verify_token_payload(issued, token, auth_now)
       IN IF status # 200
          THEN /\ auth_response' = Response("logout", token, status)
               /\ UNCHANGED <<user_sessions, logged_out>>
          ELSE /\ user_sessions' = {row \in user_sessions : row.user_id # token.sub}
               /\ logged_out' = logged_out \cup
                     {t \in issued : t.sub = token.sub /\ t.type = "access"}
               /\ auth_response' = Response("logout", token, 200)
    /\ UNCHANGED <<issued, auth_now, n_logins, not_auth_vars>>

\* GET /me (332-371): with a token that verifies, the user of its sub is
\* read and returned
GetMe(token) ==
    /\ auth_response' = Response("me", token, verify_token_payload(issued, token, auth_now))
    /\ UNCHANGED <<issued, user_sessions, auth_now, n_logins, logged_out, not_auth_vars>>

\* the clock advances
AuthTick ==
    /\ auth_now < MaxAuthTime
    /\ auth_now' = auth_now + 1
    /\ UNCHANGED <<issued, user_sessions, n_logins, logged_out, auth_response, not_auth_vars>>

\* clients that log in, log out and ask for their user with any bearer
\* string they hold
NextAuth ==
    \/ \E uid \in AuthUsers, password_ok \in BOOLEAN : Login(uid, password_ok)
    \/ \E token \in issued \cup {Garbage} : Logout(token)
    \/ \E token \in issued \cup {Garbage} : GetMe(token)
    \/ AuthTick

SpecAuth == Init /\ [][NextAuth]_vars

(***************************************************************************)
(* Properties of authentication (SpecAuth)                                 *)
(***************************************************************************)
\* C19: a request for /me that presents an access token issued before a
\* logout of its user is answered 401, although the token has not expired.
C19_TokenRejectedAfterLogout ==
    (/\ auth_response.request = "me"
     /\ auth_response.after_logout
     /\ ~auth_response.expired) => auth_response.status = 401

\* C19, its case: the user has logged out, no user_sessions row of theirs is
\* left, and /me with the unexpired token from before the logout got 200.
C19_LoggedOutTokenStillAccepted ==
    /\ auth_response.request = "me"
    /\ auth_response.after_logout
    /\ ~auth_response.expired
    /\ auth_response.status = 200
    /\ \E token \in logged_out :
          /\ token.id = auth_response.token
          /\ \A row \in user_sessions : row.user_id # token.sub

(***************************************************************************)
(* Chat sessions: the list and read endpoints (api/chat.py) and the        *)
(* ChatService methods under them (services/chat_service.py).  The caller  *)
(* is the user get_current_user has authenticated.                         *)
(***************************************************************************)
MaxChatSessions == 2
ChatUsers == {"u1", "u2"}

\* the methods class ChatService defines (chat_service.py:27-627)
ChatServiceMethods ==
    {"create_chat_session", "get_user_chat_sessions", "get_chat_session", "send_message",
     "_build_conversation_context", "_cleanup_old_messages", "update_session_title",
     "delete_chat_session", "get_message_thinking_steps", "get_session_statistics"}
\* the methods class RepositoryFactory defines (factory.py:26-86)
RepositoryFactoryMethods ==
    {"get_user_repository", "get_role_repository", "get_user_session_repository",
     "get_chat_session_repository", "get_message_repository",
     "get_thinking_step_repository", "commit", "rollback"}

\* the ids a request may name: those of the rows, and one that no row has
RequestedSessions == 1..(MaxChatSessions + 1)
\* the rows a user owns
OwnedBy(uid) == {row.id : row \in {r \in chat_sessions : r.user_id = uid}}

\* ChatService.get_chat_session (161-225): the repository is asked for the
\* session by id and owner; any exception, the AttributeError of a missing
\* factory method included, is logged and None returned (223-225)
get_chat_session(rows, sid, uid) ==
    IF "get_chat_repository" \notin RepositoryFactoryMethods THEN 0
    ELSE IF \E row \in rows : row.id = sid /\ row.user_id = uid THEN sid
    ELSE 0

\* ChatService.get_user_chat_sessions (101-159): the user's sessions, or the
\* empty list after any exception (157-159)
get_user_chat_sessions(rows, uid) ==
    IF "get_chat_repository" \notin RepositoryFactoryMethods THEN {}
    ELSE {row.id : row \in {r \in rows : r.user_id = uid}}

\* GET /sessions/{session_id} (api/chat.py:88-111): the handler calls
\* chat_service.get_session; 404 for no session, and 500 for any exception
\* that is not an HTTPException
GetSessionStatus(rows, sid, uid) ==
    IF "get_session" \notin ChatServiceMethods THEN 500
    ELSE IF get_chat_session(rows, sid, uid) = 0 THEN 404
    ELSE 200

\* GET /sessions (api/chat.py:58-85): the handler calls
\* chat_service.get_user_sessions; 500 for any exception
ListSessionsStatus == IF "get_user_sessions" \notin ChatServiceMethods THEN 500 ELSE 200

ChatResponse(request, uid, sid, status, listed) ==
    [request |-> request, user |-> uid, session |-> sid, status |-> status,
     sessions |-> listed]

\* ChatSessionRepository.create_session (chat_repository.py:24-54): a row
\* owned by the user
CreateSessionRow(uid) ==
    /\ Cardinality(chat_sessions) < MaxChatSessions
    /\ chat_sessions' = chat_sessions \cup
          {[id |-> Cardinality(chat_sessions) + 1, user_id |-> uid]}
    /\ UNCHANGED <<chat_response, not_chat_vars>>

\* the endpoint GET /sessions asked by a user
ListChatSessions(uid) ==
    /\ chat_response' = ChatResponse("list", uid, 0, ListSessionsStatus,
                                     IF ListSessionsStatus = 200
                                     THEN get_user_chat_sessions(chat_sessions, uid) ELSE {})
    /\ UNCHANGED <<chat_sessions, not_chat_vars>>

\* the endpoint GET /sessions/{session_id} asked by a user
GetChatSession(uid, sid) ==
    /\ chat_response' = ChatResponse("get", uid, sid,
                                     GetSessionStatus(chat_sessions, sid, uid), {})
    /\ UNCHANGED <<chat_sessions, not_chat_vars>>

\* ChatService.get_chat_session called directly
ServiceGetChatSession(uid, sid) ==
    /\ chat_response' = ChatResponse("service_get", uid, sid, 0,
                                     IF get_chat_session(chat_sessions, sid, uid) = 0
                                     THEN {} ELSE {sid})
    /\ UNCHANGED <<chat_sessions, not_chat_vars>>

\* ChatService.get_user_chat_sessions called directly
ServiceListChatSessions(uid) ==
    /\ chat_response' = ChatResponse("service_list", uid, 0, 0,
                                     get_user_chat_sessions(chat_sessions, uid))
    /\ UNCHANGED <<chat_sessions, not_chat_vars>>

\* two users with sessions of their own, asking for lists and for sessions
\* by id
NextChat ==
    \/ \E uid \in ChatUsers : CreateSessionRow(uid)
    \/ \E uid \in ChatUsers : ListChatSessions(uid)
    \/ \E uid \in ChatUsers, sid \in RequestedSessions : GetChatSession(uid, sid)
    \/ \E uid \in ChatUsers, sid \in RequestedSessions : ServiceGetChatSession(uid, sid)
    \/ \E uid \in ChatUsers : ServiceListChatSessions(uid)

SpecChat == Init /\ [][NextChat]_vars

(***************************************************************************)
(* Properties of the chat sessions (SpecChat)                              *)
(***************************************************************************)
\* C20: a list of sessions, from the endpoint or the service, holds only
\* sessions the asking user owns, and a read through the endpoint of a
\* session the asking user does not own is answered 404, whether the session
\* is another user's or does not exist.
C20_SessionVisibleOnlyToOwner ==
    /\ chat_response.sessions \subseteq OwnedBy(chat_response.user)
    /\ (/\ chat_response.request = "get"
        /\ chat_response.session \notin OwnedBy(chat_response.user)) =>
          chat_response.status = 404

\* C20, its case: a user asked the endpoint for a session that another user
\* owns, and the answer was neither the session nor 404.
C20_OtherUsersReadNotAnswered404 ==
    /\ chat_response.request = "get"
    /\ \E row \in chat_sessions :
          /\ row.id = chat_response.session
          /\ row.user_id # chat_response.user
    /\ chat_response.status = 500

(***************************************************************************)
(* Termination of a turn (SpecAgentFair)                                   *)
(***************************************************************************)
\* a node of the compiled graph runs: astream runs the node the last edge
\* chose as soon as the previous one has returned
RunNode == ThinkNode \/ ActNode \/ UseToolsNode \/ RespondNode \/ ErrorHandlerNode

\* a turn whose pending node is always run and whose generator is always
\* resumed: the LLM and the tools return or raise
SpecAgentFair ==
    /\ Init
    /\ [][NextAgent]_vars
    /\ WF_vars(RunNode)
    /\ WF_vars(\E flush_ok \in BOOLEAN, update_ok \in BOOLEAN : FinishTurn(flush_ok, update_ok))

NodeSequence == [i \in 1..Len(executed) |-> executed[i].node]

\* C21: a turn runs think first, no node twice, at most four nodes, one at a
\* time; respond or error_handler runs only as the last node, and a turn
\* that has started reaches its end with exactly one of them run.
C21_TurnTerminates ==
    /\ [](/\ Len(NodeSequence) <= 4
          /\ NodeSequence # <<>> => NodeSequence[1] = "think"
          /\ \A i, j \in 1..Len(NodeSequence) : i < j => NodeSequence[i] # NodeSequence[j]
          /\ \A i \in 1..Len(NodeSequence) :
                NodeSequence[i] \in {"respond", "error_handler"} => i = Len(NodeSequence)
          /\ node \in {"think", "act", "use_tools", "respond", "error_handler"} =>
                (NodeSequence = <<>> \/ NodeSequence[Len(NodeSequence)] \notin {"respond", "error_handler"})
          /\ node \in {"END", "DONE"} =>
                /\ NodeSequence # <<>>
                /\ NodeSequence[Len(NodeSequence)] \in {"respond", "error_handler"})
    /\ (node = "think") ~> (node = "DONE")

\* C21, its case: the longest turn, four nodes ending with respond, is over.
C21_FourNodeTurnOver ==
    /\ node = "DONE"
    /\ NodeSequence = <<"think", "act", "use_tools", "respond">>

\* C22: when the invocation of a registered tool raises inside use_tools, the
\* call gets a tool message with the error text and, with step recording on,
\* a tool-call step with the error text and confidence 0; error_count stays
\* as it was, every later pending call still gets the message of its own
\* outcome, and the node after use_tools is respond.
C22_RaisingToolHandled ==
    [][\A outcomes \in ToolOutcomes :
          UseTools(outcomes) =>
             \A j \in 1..Len(tool_calls) :
                (tool_calls[j].name \in RegisteredTools /\ outcomes[j] = "raise") =>
                   /\ messages'[Len(messages) + j] =
                         ToolMessage("tool_error", tool_calls[j].id)
                   /\ (Tracking /\ session_id \in DOMAIN active_sessions) =>
                         LET step == step_buffers'[session_id]
                                        [Len(step_buffers[session_id]) + 2 * j]
                         IN /\ step.step_type = "tool_call"
                            /\ step.tool_name = tool_calls[j].name
                            /\ step.tool_output = "tool_error"
                            /\ step.confidence = 0
                   /\ error_count' = error_count
                   /\ \A k \in (j + 1)..Len(tool_calls) :
                         /\ messages'[Len(messages) + k].type = "tool"
                         /\ messages'[Len(messages) + k].tool_call_id = tool_calls[k].id
                         /\ (tool_calls[k].name \in RegisteredTools /\ outcomes[k] = "ok") =>
                               messages'[Len(messages) + k].content = "result"
                   /\ Len(messages') = Len(messages) + Len(tool_calls)
                   /\ tool_calls' = <<>>
                   /\ node' = "respond"]_vars

\* C22, its case: use_tools has just run, with step recording on, on two
\* calls of which the first raised and the second returned its result.
C22_RaisedThenSucceeded ==
    /\ node = "respond" /\ LastRun = "use_tools" /\ Tracking
    /\ session_id \in DOMAIN step_buffers
    /\ Len(messages) >= 2
    /\ messages[Len(messages) - 1].type = "tool"
    /\ messages[Len(messages) - 1].content = "tool_error"
    /\ messages[Len(messages)].type = "tool"
    /\ messages[Len(messages)].content = "result"
    /\ \E i \in 1..Len(step_buffers[session_id]) :
          /\ step_buffers[session_id][i].tool_output = "tool_error"
          /\ step_buffers[session_id][i].confidence = 0

\* the caller-built messages among a list of messages or events, in order;
\* callers number their messages in the order of their send_message calls
CallerObjects(entries) ==
    SelectSeq([i \in 1..Len(entries) |-> entries[i].obj], LAMBDA o : o # 0)

\* C23: no message a caller sent to a connection is delivered twice by the
\* connection's event stream or is still waiting once delivered; delivered
\* and waiting messages are in the order of their send_message calls; and on
\* a full queue send_message is not blocked and returns false.
C23_AtMostOnceInOrder ==
    /\ \A cid \in DOMAIN delivered :
          StrictlyIncreasing(
             CallerObjects(delivered[cid]) \o
             (IF cid \in DOMAIN connection_queues
              THEN CallerObjects(connection_queues[cid]) ELSE <<>>))
    /\ \A cid \in Registered :
          StrictlyIncreasing(CallerObjects(connection_queues[cid]))
    /\ \A cid \in Registered :
          Len(connection_queues[cid]) = max_queue_size =>
             /\ n_messages < MaxMessages => ENABLED SendMessageCall(cid)
             /\ ~SendMessage(connections, connection_queues, cid,
                             StreamMessage("message", n_messages + 1)).accepted

\* C23, its case: of three messages sent to a connection the first was
\* accepted and later evicted on overflow, the second has been delivered and
\* the third was refused; the queue-full error stands for the loss.
C23_AcceptedThenLost ==
    \E cid \in Registered :
       /\ cid \in DOMAIN delivered
       /\ n_messages = 3
       /\ CallerObjects(delivered[cid]) = <<2>>
       /\ CallerObjects(connection_queues[cid]) = <<>>
       /\ \/ QueueFullError \in Range(connection_queues[cid])
          \/ \E i \in 1..Len(delivered[cid]) : delivered[cid][i].event_type = "error"
       /\ connections[cid].sequence_number = 4

\* C24: every numbered message waiting in a registered connection's queue
\* has a number its own connection's counter has reached, and no two
\* messages waiting in one queue have the same number.
C24_QueuedSequenceIsOwn ==
    \A cid \in Registered :
       LET queue == connection_queues[cid]
       IN /\ \A i \in 1..Len(queue) :
                queue[i].sequence <= connections[cid].sequence_number
          /\ \A i, j \in 1..Len(queue) :
                (i < j /\ queue[i].sequence # 0) => queue[i].sequence # queue[j].sequence

\* C24, its case: one message was broadcast to two connections whose
\* counters differ; the copy waiting in the first one's queue carries the
\* number the second one's counter gave it, which the first one's counter
\* has not reached.
C24_BroadcastCarriesOthersNumber ==
    /\ last_broadcast # <<>>
    /\ broadcast_tasks = <<>>
    /\ \E first, second \in Registered :
          /\ last_broadcast[1].targets = <<first, second>>
          /\ first \in last_broadcast[1].accepted
          /\ \E i \in 1..Len(connection_queues[first]) :
                /\ connection_queues[first][i].obj = last_broadcast[1].obj
                /\ connection_queues[first][i].sequence = connections[second].sequence_number
                /\ connection_queues[first][i].sequence > connections[first].sequence_number

\* C25: every event the event stream yields from the queue of a connection
\* carries a sequence number (not None), greater than the numbers of all
\* events the stream yielded before; the queue-full error notification and
\* the messages sent after an overflow are no exception.
C25_DeliveredEventsNumbered ==
    [][\A cid \in DOMAIN stream_pc :
          StreamRead(cid) =>
             LET event == delivered'[cid][Len(delivered'[cid])]
             IN /\ event.sequence # 0
                /\ \A i \in 1..Len(delivered[cid]) :
                      delivered[cid][i].sequence < event.sequence]_vars

\* C25, its case: the stream has just yielded, from the queue, the error
\* notification of an overflow; its sequence is None.
C25_ErrorNotificationUnnumbered ==
    \E cid \in DOMAIN stream_pc :
       /\ stream_pc[cid] = "yielded"
       /\ delivered[cid] # <<>>
       /\ delivered[cid][Len(delivered[cid])] = to_sse_format(QueueFullError)
       /\ delivered[cid][Len(delivered[cid])].sequence = 0

(***************************************************************************)
(* The read timeouts of an event stream (SpecHeartbeatFair).               *)
(***************************************************************************)
\* the steps of the generator of connection 1 that its consumer drives
\* (api/stream.py:113-124) and the timer of wait_for
ConsumerStep ==
    \/ StreamResume(1)
    \/ StreamRead(1)
    \/ StreamTimeout(1)
    \/ StreamFinish(1)

\* the running service with its heartbeat loop, the clock, a caller that
\* creates connections and sends to the first, and the consumer of the first
NextTimeouts ==
    \/ StartService
    \/ StopService
    \/ CreateConnection("u1", "None")
    \/ SendMessageCall(1)
    \/ Tick
    \/ HeartbeatSweep
    \/ StreamOpen(1)
    \/ ConsumerStep

\* time passes, the heartbeat loop's task runs when its sleep is over, and
\* the consumer keeps asking its generator for the next event
SpecHeartbeatFair ==
    Init /\ [][NextTimeouts]_vars
         /\ WF_vars(Tick) /\ WF_vars(HeartbeatSweep) /\ WF_vars(ConsumerStep)

LastDelivered(cid) == delivered[cid][Len(delivered[cid])]
\* the generator is past its loop and the last event it yielded, if it
\* yielded any, is stream_end
StreamEnded(cid) ==
    /\ cid \in DOMAIN stream_pc
    /\ stream_pc[cid] \in {"ending", "done"}
    /\ delivered[cid] # <<>> => LastDelivered(cid).event_type = "stream_end"
Attached(cid) == cid \in DOMAIN stream_pc /\ stream_pc[cid] \in {"yielded", "waiting"}

\* C26: a read of the event stream that times out yields a heartbeat event
\* and leaves the stream open, the connection registered if it was, and its
\* last heartbeat as it was; so a connection with a consumer attached whose
\* last heartbeat is older than connection_timeout is removed by the heartbeat
\* loop of the running service (unless a message read renews it first), and
\* the stream of a connection that loop removed ends with stream_end.
C26_TimeoutKeepsHeartbeatAge ==
    /\ [][\A cid \in DOMAIN stream_pc :
             StreamTimeout(cid) =>
                /\ delivered'[cid] = Append(delivered[cid], OwnEvent("heartbeat"))
                /\ stream_pc'[cid] = "yielded"
                /\ connections' = connections
                /\ connection_queues' = connection_queues]_vars
    /\ (running /\ Attached(1) /\ Stale(1)) ~> (1 \notin Registered \/ Fresh(1))
    /\ (1 \in swept /\ 1 \in DOMAIN stream_pc)
          ~> StreamEnded(1)

\* C26, its case: the stream of connection 1 has yielded a heartbeat for a
\* read that timed out, the heartbeat loop has removed the connection, and
\* the stream has ended with stream_end.
C26_SweptAfterHeartbeatsThenEnded ==
    /\ 1 \in swept
    /\ 1 \in DOMAIN stream_pc
    /\ stream_pc[1] = "done"
    /\ Heartbeats(delivered[1]) > 0
    /\ LastDelivered(1).event_type = "stream_end"

(***************************************************************************)
(* The cleanup task of the stream service (SpecCleanup).                   *)
(***************************************************************************)
\* the connections _cleanup_loop selects (534-538)
Disconnected(conns) == {c \in DOMAIN conns : conns[c].status = "disconnected"}

\* one pass of _cleanup_loop (526-546), after its sleep
CleanupPass ==
    /\ running
    /\ LET out == DisconnectAll(connections, connection_queues, Disconnected(connections))
       IN /\ connections' = out.connections
          /\ connection_queues' = out.queues
    /\ UNCHANGED <<running, since_sweep, broadcast_tasks, last_broadcast, stream_pc, delivered,
                   n_created, n_messages, swept, not_stream_vars>>

\* the running service with both its background tasks, callers that create,
\* send and disconnect, and a consumer of the first connection's event stream
NextCleanup ==
    \/ StartService
    \/ StopService
    \/ CreateConnection("u1", "None")
    \/ \E cid \in ConnIds : DisconnectConnection(cid)
    \/ \E cid \in ConnIds : SendMessageCall(cid)
    \/ Tick
    \/ HeartbeatSweep
    \/ CleanupPass
    \/ StreamOpen(1)
    \/ StreamResume(1)
    \/ StreamRead(1)
    \/ StreamFinish(1)

SpecCleanup == Init /\ [][NextCleanup]_vars

\* C27: every registered connection has status connecting or connected, never
\* disconnected; the registry and the queue map hold the same connection ids;
\* a disconnect removes the connection and its queue; and a pass of the
\* cleanup task finds no connection to remove and changes nothing.
C27_NoDisconnectedRegistered ==
    /\ [](/\ \A cid \in Registered : connections[cid].status \in {"connecting", "connected"}
          /\ DOMAIN connection_queues = Registered)
    /\ [][/\ \A cid \in Registered :
                DisconnectConnection(cid) =>
                   cid \notin Registered' /\ cid \notin DOMAIN connection_queues'
          /\ CleanupPass =>
                /\ Disconnected(connections) = {}
                /\ connections' = connections
                /\ connection_queues' = connection_queues]_vars

\* C27, its case: the service runs its background tasks, one connection was
\* disconnected by a caller, and another is registered and connected.
C27_RemovedAndRegistered ==
    /\ running
    /\ \E cid \in Registered : connections[cid].status = "connected"
    /\ \E cid \in 1..n_created : cid \notin Registered /\ cid \notin swept

\* C28: in a turn, which starts with error_count 0, the error node is entered
\* only with error_count = 1 and error_count never exceeds 2; with max_errors
\* 3 the message the error node appends is always the ordinary one, never
\* the one for error_count >= max_errors.
C28_ErrorNodeOrdinaryMessage ==
    /\ [](/\ error_count <= 2
          /\ node = "error_handler" => error_count = 1
          /\ \A i \in 1..Len(executed) :
                executed[i].node = "error_handler" => executed[i].error_count = 1)
    /\ [][ErrorHandlerNode =>
             /\ error_count < max_errors
             /\ messages' = Append(messages, AIMessage("error_try_again", <<>>))]_vars

\* C28, its case: a finished turn whose act node failed after think had
\* succeeded; the error node ran and its message is the ordinary one.
C28_ActFailedOrdinaryMessage ==
    /\ TurnOver
    /\ LastRun = "error_handler"
    /\ "act" \in NodesRun
    /\ error_count = 1
    /\ messages[Len(messages)] = AIMessage("error_try_again", <<>>)

(***************************************************************************)
(* Two tasks inside track_session scopes for one session id                *)
(* (SpecOverlap): two turns for the same chat session, each in             *)
(* process_message (base_agent.py:590-605), share the tracker.  The store  *)
(* answers every flush.                                                    *)
(***************************************************************************)
\* the titles of the steps the store holds for a session
Persisted(sid) == Titles(SeqFilter(db_steps, sid))
\* the titles of the steps waiting in a session's buffer
Buffered(sid) == IF sid \in DOMAIN step_buffers THEN Titles(step_buffers[sid]) ELSE <<>>

\* a task enters track_session (81-98), whether or not another scope is open
\* on the session id
ScopeEnter(sid, uid, create_ok) ==
    /\ n_scopes < MaxScopes
    /\ open_scopes[sid] < 2
    /\ active_sessions' = DictPut(active_sessions, sid, ThinkingContext(sid, uid))
    /\ step_buffers' = DictPut(step_buffers, sid, <<>>)
    /\ db_sessions' = CreateThinkingSession(db_sessions, sid, uid, create_ok)
    /\ open_scopes' = [open_scopes EXCEPT ![sid] = @ + 1]
    /\ recorded' = IF open_scopes[sid] = 0 THEN DictPut(recorded, sid, Persisted(sid))
                   ELSE recorded
    /\ n_scopes' = n_scopes + 1
    /\ last_call' = [Call("track_session_enter", sid) EXCEPT !.db_ok = create_ok]
    /\ UNCHANGED <<db_steps, n_recorded, flush_call, not_tracker_vars>>

\* a task inside a scope calls a recorder (110-244), without auto_flush
ScopeRecord(sid, recorder, confidence) ==
    /\ n_recorded < MaxSteps
    /\ open_scopes[sid] > 0
    /\ LET step_data == StepOf(recorder, ToString(n_recorded + 1), confidence)
           out == AddThinkingStep(active_sessions, step_buffers, db_steps, sid,
                                  step_data, FALSE, TRUE)
       IN /\ step_buffers' = out.buffers
          /\ db_steps' = out.steps
          /\ recorded' = [recorded EXCEPT ![sid] = Append(@, step_data.title)]
          /\ last_call' = [Call(recorder, sid) EXCEPT
                              !.was_active = sid \in DOMAIN active_sessions]
    /\ n_recorded' = n_recorded + 1
    /\ UNCHANGED <<active_sessions, db_sessions, n_scopes, task_vars, not_tracker_vars>>

\* a task leaves its scope (100-108)
ScopeExit(sid, update_ok) ==
    /\ open_scopes[sid] > 0
    /\ LET out == TrackSessionExitResult(active_sessions, step_buffers, db_steps,
                                         db_sessions, sid, TRUE, update_ok)
       IN /\ active_sessions' = out.active
          /\ step_buffers' = out.buffers
          /\ db_steps' = out.steps
          /\ db_sessions' = out.sessions
    /\ open_scopes' = [open_scopes EXCEPT ![sid] = @ - 1]
    /\ last_call' = [Call("track_session_exit", sid) EXCEPT
                        !.was_active = sid \in DOMAIN active_sessions,
                        !.buffered = Len(Buffered(sid))]
    /\ UNCHANGED <<recorded, n_recorded, n_scopes, flush_call, not_tracker_vars>>

NextOverlap ==
    \/ \E sid \in SessionIds, create_ok \in BOOLEAN : ScopeEnter(sid, "u1", create_ok)
    \/ \E sid \in SessionIds, recorder \in Recorders, confidence \in Confidences :
          ScopeRecord(sid, recorder, confidence)
    \/ \E sid \in SessionIds, update_ok \in BOOLEAN : ScopeExit(sid, update_ok)

SpecOverlap == Init /\ [][NextOverlap]_vars

\* C29: with two overlapping track_session scopes on one session id, every
\* step recorded inside a scope that was open is persisted or, while a scope
\* on the id is open, waiting in the buffer; and it is persisted once every
\* scope on the id is closed.
C29_OverlappingScopesKeepSteps ==
    \A sid \in DOMAIN recorded :
       \A i \in 1..Len(recorded[sid]) :
          \/ recorded[sid][i] \in Range(Persisted(sid))
          \/ open_scopes[sid] > 0 /\ recorded[sid][i] \in Range(Buffered(sid))

\* C29, its case: two scopes on one session id overlapped and both are
\* closed; a step recorded inside them was never persisted.
C29_StepLostByOverlap ==
    \E sid \in DOMAIN recorded :
       /\ n_scopes = 2
       /\ open_scopes[sid] = 0
       /\ \A other \in SessionIds \ {sid} : other \notin DOMAIN recorded
       /\ \E i \in 1..Len(recorded[sid]) : recorded[sid][i] \notin Range(Persisted(sid))

(***************************************************************************)
(* _flush_steps with its awaits (SpecFlush): the call is suspended at the  *)
(* count query (417-419) and at the commit (441), and other tasks of the   *)
(* event loop record steps for the session meanwhile.                      *)
(***************************************************************************)
\* the ThinkingStep objects the loop at 422-439 adds to the database session
PendingRows(buffer, current_count) ==
    [i \in 1..Len(buffer) |-> [step_number |-> current_count + (i - 1) + 1,
                               step_data |-> buffer[i]]]

\* add_thinking_step with auto_flush (110-135) up to the first await of
\* _flush_steps: the step is appended, the buffer is not empty, the count
\* query is sent
RecordAndFlushBegin(sid, recorder, confidence) ==
    /\ n_recorded < MaxSteps
    /\ flush_call = NoFlush
    /\ sid \in DOMAIN active_sessions
    /\ LET step_data == StepOf(recorder, ToString(n_recorded + 1), confidence)
       IN /\ step_buffers' = [step_buffers EXCEPT ![sid] = Append(@, step_data)]
          /\ recorded' = [recorded EXCEPT ![sid] = Append(@, step_data.title)]
    /\ n_recorded' = n_recorded + 1
    /\ flush_call' = [session_id |-> sid, pc |-> "count", rows |-> <<>>]
    /\ last_call' = [Call(recorder, sid) EXCEPT !.auto_flush = TRUE, !.was_active = TRUE]
    /\ UNCHANGED <<active_sessions, db_steps, db_sessions, n_scopes, open_scopes,
                   not_tracker_vars>>

\* the count query answers (417-419): the rows are built from the buffer as
\* it is now (422-439) and the commit is sent (441); if the query raises, the
\* exception is logged (446-447) and the call is over
FlushCount(db_ok) ==
    /\ flush_call.pc = "count"
    /\ LET sid == flush_call.session_id
       IN flush_call' =
             IF db_ok /\ sid \in DOMAIN step_buffers
             THEN [flush_call EXCEPT
                      !.pc = "commit",
                      !.rows = PendingRows(step_buffers[sid],
                                           Len(SeqFilter(db_steps, sid)))]
             ELSE NoFlush
    /\ last_call' = [Call("_flush_steps_count", flush_call.session_id) EXCEPT !.db_ok = db_ok]
    /\ UNCHANGED <<tracker_vars, client_vars, open_scopes, not_tracker_vars>>

\* the commit answers (441): the rows are in the store and the buffer is
\* replaced by an empty list (444); if the commit raises, the buffer is kept
ClearBuffer(buffers, sid) == DictPut(buffers, sid, <<>>)

FlushCommit(db_ok) ==
    /\ flush_call.pc = "commit"
    /\ LET sid == flush_call.session_id
           rows == flush_call.rows
       IN IF db_ok
          THEN /\ db_steps' = db_steps \o
                     [i \in 1..Len(rows) |->
                         StepRow(sid, rows[i].step_number, Len(db_steps) + i,
                                 rows[i].step_data)]
               /\ step_buffers' = ClearBuffer(step_buffers, sid)
          ELSE UNCHANGED <<db_steps, step_buffers>>
    /\ flush_call' = NoFlush
    /\ last_call' = [Call("_flush_steps_commit", flush_call.session_id) EXCEPT !.db_ok = db_ok]
    /\ UNCHANGED <<active_sessions, db_sessions, client_vars, open_scopes, not_tracker_vars>>

\* tasks that open scopes, record without auto_flush at any time, and one
\* that records with auto_flush
NextFlush ==
    \/ \E sid \in SessionIds, create_ok \in BOOLEAN : TrackSessionEnter(sid, "u1", create_ok)
    \/ \E sid \in SessionIds, recorder \in Recorders, confidence \in Confidences :
          Record(sid, recorder, confidence, FALSE, TRUE)
    \/ \E sid \in SessionIds, confidence \in Confidences :
          RecordAndFlushBegin(sid, "add_thinking_step", confidence)
    \/ \E db_ok \in BOOLEAN : FlushCount(db_ok)
    \/ \E db_ok \in BOOLEAN : FlushCommit(db_ok)

SpecFlush == Init /\ [][NextFlush]_vars

\* how often a title occurs in a list of titles
Occurrences(titles, title) == Cardinality({i \in 1..Len(titles) : titles[i] = title})

\* C30: a step recorded while a flush of its session is suspended at the
\* count query or at the commit is neither lost nor persisted twice: at any
\* time it is in the buffer or persisted, never persisted more than once, and
\* once no flush is in progress it is either in the buffer or persisted
\* exactly once, not both; the step numbers persisted for a session are
\* all different.
C30_FlushKeepsConcurrentSteps ==
    /\ \A sid \in DOMAIN recorded :
          \A i \in 1..Len(recorded[sid]) :
             LET title == recorded[sid][i]
                 buffered == Occurrences(Buffered(sid), title)
                 persisted == Occurrences(Persisted(sid), title)
             IN /\ buffered + persisted >= 1
                /\ persisted <= 1
                /\ flush_call = NoFlush => buffered + persisted = 1
    /\ \A i, j \in 1..Len(db_steps) :
          (i # j /\ db_steps[i].session_id = db_steps[j].session_id) =>
             db_steps[i].step_number # db_steps[j].step_number

\* C30, its case: a flush has just committed; a step that was recorded while
\* it was suspended is neither in the buffer nor in the store.
C30_StepRecordedDuringFlushLost ==
    /\ last_call.op = "_flush_steps_commit"
    /\ last_call.db_ok
    /\ flush_call = NoFlush
    /\ \E i \in 1..Len(recorded[last_call.session_id]) :
          LET title == recorded[last_call.session_id][i]
          IN /\ title \notin Range(Buffered(last_call.session_id))
             /\ title \notin Range(Persisted(last_call.session_id))

====
